---- MODULE Spec2Model ----
(***************************************************************************)
(* Verification model of qmt-bridge's download orchestration core:         *)
(*   - the xtdata serialization guard of the HTTP path (server/app.py),    *)
(*     the WebSocket endpoints and the scheduler's native calls            *)
(*     (server/scheduler.py, server/cli.py);                               *)
(*   - the single-call executor download_single_kline                      *)
(*     (server/downloader.py);                                             *)
(*   - the K-line incremental planner download_kline_incremental           *)
(*     (server/downloader.py).                                             *)
(* Each component has its own specification (SpecGuard, SpecExec,          *)
(* SpecPlan); a component's variables stay at their initial value under    *)
(* the other components' specifications.                                   *)
(***************************************************************************)
EXTENDS Integers, Sequences, FiniteSets, TLC

(***************************************************************************)
(* Bounds of the model.                                                    *)
(***************************************************************************)
\* number of concurrent HTTP requests to guarded routes
NumRequests == 3
\* number of WebSocket connections
NumWs == 2

Requests == 1..NumRequests
WsConns == 1..NumWs

(***************************************************************************)
(* State.                                                                  *)
(***************************************************************************)
VARIABLES
    \* ---- serialization guard, HTTP path, WebSocket path, scheduler ----
    lockHeld,     \* _xtdata_lock.locked()
    waiters,      \* FIFO queue of the requests suspended in _xtdata_lock.acquire()
    reqPc,        \* per request: "idle", "waiting", "handler", "native", "done"
    reqQueued,    \* per request: it had to wait for the lock
    lastRelease,  \* how the lock was last released: "none", "return", "raise"
    wsPc,         \* per WebSocket connection: "closed", "open"
    schedStep,    \* position of scheduler_loop in its cycle (1..SchedSteps)
    schedNative,  \* the scheduler has a native call running in its executor
    \* ---- download_single_kline (one call) ----
    ePc,           \* position in download_single_kline
    eStart,        \* argument start_time
    eIncrArg,      \* argument incrementally: <<>> is None, <<b>> is the bool b
    eTimeout,      \* argument timeout, in poll intervals (time.sleep(0.1))
    eParam,        \* param["incrementally"]
    eSent,         \* the incrementally byte of bson_param received by the native call
    eNativeCalls,  \* number of client.supply_history_data2 calls issued
    eNativeResult, \* outcome of the native call: "cached", "async", "raise"
    eDone,         \* status["done"]
    eError,        \* status["error"]
    eCb,           \* the callback that set done: kind, message
    eSawDone,      \* the wait loop was left because status["done"] was true
    eConnected,    \* what client.is_connected() returns now
    eConnLost,     \* the connection was down at some instant since the call
    eNow,          \* time.monotonic()
    eDeadline,     \* deadline
    eLastRead,     \* outcome of the last xtdata.get_local_data call
    eReads,        \* number of xtdata.get_local_data calls issued
    eResult,       \* the returned status: [status, msg]
    \* ---- download_kline_incremental (one invocation) ----
    pPc,          \* position in download_kline_incremental
    pProbeLog,    \* the xtdata.get_local_data calls probe_local_dates has issued
    pVariant,     \* "server": downloader.download_kline_incremental;
                  \* "cli": mode C of scripts/download_all.download_kline_v2
    pStocks,      \* argument stocks
    pCache,       \* the local cache of every instrument
    pBatch,       \* index of the next batch of the running probe loop
    pLocalDates,  \* local_dates: instrument -> "YYYYMMDD" (NoDate: not a key)
    pProbeFailed, \* the instruments of probe batches that raised
    pHasHistory,  \* has_history
    pHistFailed,  \* the instruments of sentinel-year batches that raised
    pIncomplete,  \* incomplete_stocks
    pSorted,      \* sorted_stocks
    pGroups,      \* date_groups: [st, et, stocks]
    \* ---- the retrying runner of the server orchestrators ----
    rPc,          \* position in the download loop of the orchestrator
    rKind,        \* "kline": download_kline_incremental + _run_kline_downloads;
                  \* "financial": download_financial_incremental +
                  \* _run_financial_batches
    rGroups,      \* the job lists: per date group (one group for financial
                  \* data) the number of instruments of each job
    rCached,      \* n_cached: instruments skipped as fresh (financial)
    rMaxRetries,  \* argument max_retries
    rScripted,    \* the jobs are a double: fail, fail, then succeed
    rGroup,       \* index of the current date group
    rRound,       \* 0 in the first round, retry_round in a retry round
    rIndices,     \* stock_indices / batch_indices of the running round
    rSeq,         \* number of jobs of rIndices the running round has done
    resOk,        \* res.ok / ok_count of the running round
    resFail,      \* res.fail / fail_count of the running round
    resTo,        \* res.timeout / timeout_count of the running round
    resFailed,    \* res.failed_indices of the running round
    rOk,          \* ok
    rFailed,      \* failed
    totalOk,      \* total_ok (kline), ok of the result (financial)
    totalFail,    \* total_fail, fail of the result
    totalTo,      \* total_to, timeout of the result
    rAttempts,    \* per job: number of attempts made
    rStatus,      \* per job: outcome of its last attempt
    rLastRound,   \* per job: round of its last attempt
    rBase,        \* effective_timeout (K-line), timeout (financial)
    rTimeout,     \* the timeout handed to the running round
    rPrevTimeout, \* the timeout of the round before it (0: none)
    \* ---- one run of the CLI script scripts/download_all.py ----
    cPc,          \* position in main()
    cFull,        \* args.full (mode B); otherwise mode C
    cSkipKline,   \* args.skip_kline
    cSkipFin,     \* args.skip_financial
    cNumPeriods,  \* len(periods)
    cNumStocks,   \* len(stocks)
    cMaxRetries,  \* args.max_retries
    cDelay,       \* args.delay > 0
    cNeed,        \* number of instruments the financial probe finds not fresh
    cPhase,       \* "kline": in download_kline_v2; "financial": in download_financial
    cPeriod,      \* index of the current period
    cGroups,      \* date_groups of the period / <<batches>>: job sizes
    cGroup,       \* index of the current date group
    cRound,       \* 0 in the first round, retry_round in a retry round
    cIndices,     \* stock_indices / batch_indices of the running round
    cSeq,         \* number of jobs of cIndices the running round has done
    cOkCount,     \* ok_count of the running round
    cFailCount,   \* fail_count of the running round
    cToCount,     \* timeout_count of the running round
    cFailedIdx,   \* failed_indices of the running round
    cJobStatus,   \* per job of the group: how its last attempt ended
    cOk,          \* ok
    cFailed,      \* failed
    cInterrupted, \* interrupted (local of the orchestrator)
    cTotalOk,     \* total_ok
    cTotalFail,   \* total_fail
    cTotalTo,     \* total_to
    cResults,     \* kline_results, in period order (<<>> is None or empty)
    cFinResult,   \* financial_result (<<>> is None)
    gInterrupted, \* the module global _interrupted
    cInterrupts,  \* number of Ctrl+C so far
    cIntJob,      \* the K-line job in which the runner caught an interrupt
    cIntWhere,    \* where the first Ctrl+C arrived
    cPrevTasks,   \* state.tasks as load_state() returned it
    cTasks,       \* state.tasks as save_state(state) wrote it
    cUnfinished,  \* the task keys whose task ended with a job failed or cut short
    cSaved,       \* save_state(state) has run
    cSummary,     \* print_summary(...) has run
    \* ---- the freshness filter of download_financial_incremental ----
    fPc,          \* position in download_financial_incremental
    fStocks,      \* argument stocks
    fCache,       \* the local primary table of every instrument
    fBatch,       \* index of the next batch of probe_financial_cache
    fFresh,       \* fresh
    fStaleCount,  \* stale_count
    fIncompleteCount, \* incomplete_count
    fProbeFailed, \* the instruments of probe batches that raised
    fNeed,        \* need_download
    fResult,      \* the dictionary returned when nothing needs a download
    \* ---- scheduler_loop and its task runners (server/scheduler.py) ----
    sPc,          \* position of scheduler_loop
    sKlineEnabled,\* settings.scheduler_kline_enabled
    sFinEnabled,  \* settings.scheduler_financial_enabled
    sNumPeriods,  \* number of periods in settings.scheduler_kline_periods
    sTask,        \* index in DAILY_TASKS of the task of run_daily_downloads
    sCycle,       \* number of the running cycle
    sElapsed,     \* seconds since the running cycle started
    sWake,        \* value of sElapsed at which asyncio.sleep(86400) returns
    sGap,         \* seconds from the start of the cycle before (or from the
                  \* entry of scheduler_loop) to the start of the running one
    sLog,         \* the tasks started in the running cycle, in order
    sDailyBusy,   \* DAILY_TASKS functions running in the executor
    sDailyRaised, \* the first DAILY_TASKS function that raised in this cycle
    wPc,          \* position of every invocation of a task runner
    wKind,        \* the task runner of every invocation
    wPeriod,      \* index of the period of every K-line invocation
    sRunning,     \* state._running
    sLastResult,  \* state._last_results, as the invocation that set it
    sLastRunTime, \* state._last_run_times
    sInFlight,    \* per task key, the invocations inside the download
    \* ---- repeated invocations of an incremental orchestrator ----
    oPc,          \* "ready" while the orchestrator can be invoked
    oKind,        \* which orchestrator: K-line or financial
    oN,           \* len(stocks)
    oBatchSize,   \* batch_size of download_financial_incremental
    oMaxRetries,  \* max_retries
    oCache,       \* what the local cache holds of every instrument
    oRun,         \* number of invocations so far
    oFreshAtStart,\* the cache held fresh data of every instrument at the last call
    oProbeRaised, \* the local reads of the last invocation's probe raised
    oJobs,        \* the jobs of the last invocation (date groups, batches)
    oCalls,       \* native download calls of every invocation so far
    oResult,      \* the result of the last invocation
    \* ---- build_year_groups of scripts/download_all.py (one call) ----
    yPc,          \* position in build_year_groups
    yStocks,      \* argument stocks
    yFull,        \* argument full
    ySince,       \* argument since_year
    yCache,       \* per instrument: the years in which the local cache has bars
    yYear,        \* the year probe_year_coverage is at
    yBatch,       \* the batch of that year it is at
    yCoverage,    \* coverage: per year, the instruments found cached
    yRaised,      \* the <<year, batch>> probes that raised
    yGroups,      \* the returned list of (start_time, end_time, stocks)
    \* ---- _download_single_kline of scripts/download_all.py (one job of the runner) ----
    kPc,          \* position in _download_single_kline and in the runner's iteration
    kTimeout,     \* argument timeout, in poll intervals (time.sleep(0.1))
    kNativeResult,\* outcome of the native call: "cached", "async", "raise"
    kDone,        \* status["done"]
    kError,       \* status["error"]
    kConnected,   \* what client.is_connected() returns now
    kNow,         \* time.monotonic()
    kDeadline,    \* deadline
    kLocal,       \* what a local read of the instrument, period and range would give
    kReads,       \* number of xtdata.get_local_data calls the executor has issued
    kResult,      \* the returned string ("none" before the return)
    kOkCount,     \* ok_count of the runner
    kFailCount,   \* fail_count of the runner
    kTimeoutCount,\* timeout_count of the runner
    kFailedIdx,   \* failed_indices of the runner
    \* ---- _run_financial_batches of server/downloader.py and its worker threads ----
    bPc,          \* position in _run_financial_batches and in the retry loop around it
    bBatches,     \* batches: the length of each batch
    bDelay,       \* delay > 0
    bMaxRetries,  \* max_retries
    bTimeout,     \* timeout, in polls of wait_future
    bRound,       \* retry_round (0: the first round)
    bIndices,     \* batch_indices of the running round
    bSeq,         \* number of batches of the round that are done
    bPolled,      \* polls of wait_future that found the future not done
    bFuture,      \* the future wait_future waits for: "pending", "ok", "raised"
    bRunning,     \* the download_financial_data2 calls running in worker threads
    bOkCount,     \* ok_count
    bFailCount,   \* fail_count
    bToCount,     \* timeout_count
    bFailedIdx,   \* failed_indices
    bFailed,      \* failed of the retry loop
    \* ---- broadcast_trade_event and the /ws/trade clients (ws/trade_callback.py) ----
    tPc,          \* position of broadcast_trade_event: "idle", "send", "done", "raised"
    tListeners,   \* _trade_listeners
    tUsed,        \* the size of the set when the for loop made its iterator
    tModified,    \* the set was added to or removed from since then
    tVisited,     \* the clients the iterator has yielded
    tCurrent,     \* the client whose send_json is awaited (0: none)
    tDead,        \* dead
    tDelivered,   \* the clients whose send_json returned
    tStayed       \* the clients registered since the broadcast started

guardVars == <<lockHeld, waiters, reqPc, reqQueued, lastRelease, wsPc,
               schedStep, schedNative>>

execVars == <<ePc, eStart, eIncrArg, eTimeout, eParam, eSent, eNativeCalls,
              eNativeResult, eDone, eError, eCb, eSawDone, eConnected,
              eConnLost, eNow, eDeadline, eLastRead, eReads, eResult>>

planVars == <<pPc, pProbeLog, pVariant, pStocks, pCache, pBatch, pLocalDates, pProbeFailed,
              pHasHistory, pHistFailed, pIncomplete, pSorted, pGroups>>

runVars == <<rPc, rKind, rGroups, rCached, rMaxRetries, rScripted, rGroup, rRound,
             rIndices, rSeq, resOk, resFail, resTo, resFailed, rOk, rFailed,
             totalOk, totalFail, totalTo, rAttempts, rStatus, rLastRound,
             rBase, rTimeout, rPrevTimeout>>

cliVars == <<cPc, cFull, cSkipKline, cSkipFin, cNumPeriods, cNumStocks, cMaxRetries,
             cDelay, cNeed, cPhase, cPeriod, cGroups, cGroup, cRound, cIndices,
             cSeq, cOkCount, cFailCount, cToCount, cFailedIdx, cJobStatus, cOk, cFailed,
             cInterrupted, cTotalOk, cTotalFail, cTotalTo, cResults, cFinResult,
             gInterrupted, cInterrupts, cIntJob, cIntWhere, cSaved, cSummary,
             cPrevTasks, cTasks, cUnfinished>>

finVars == <<fPc, fStocks, fCache, fBatch, fFresh, fStaleCount, fIncompleteCount,
             fProbeFailed, fNeed, fResult>>

loopVars == <<sPc, sKlineEnabled, sFinEnabled, sNumPeriods, sTask, sCycle,
              sElapsed, sWake, sGap, sLog, sDailyBusy, sDailyRaised, wPc,
              wKind, wPeriod, sRunning, sLastResult, sLastRunTime, sInFlight>>

orcVars == <<oPc, oKind, oN, oBatchSize, oMaxRetries, oCache, oRun,
             oFreshAtStart, oProbeRaised, oJobs, oCalls, oResult>>

yearVars == <<yPc, yStocks, yFull, ySince, yCache, yYear, yBatch, yCoverage,
              yRaised, yGroups>>

singleVars == <<kPc, kTimeout, kNativeResult, kDone, kError, kConnected, kNow,
                kDeadline, kLocal, kReads, kResult, kOkCount, kFailCount,
                kTimeoutCount, kFailedIdx>>

batchesVars == <<bPc, bBatches, bDelay, bMaxRetries, bTimeout, bRound,
                 bIndices, bSeq, bPolled, bFuture, bRunning, bOkCount,
                 bFailCount, bToCount, bFailedIdx, bFailed>>

tradeVars == <<tPc, tListeners, tUsed, tModified, tVisited, tCurrent, tDead,
               tDelivered, tStayed>>

vars == <<guardVars, execVars, planVars, runVars, cliVars, finVars, loopVars, orcVars, yearVars, singleVars, batchesVars, tradeVars>>

\* the variables of the other components
notGuard == <<execVars, planVars, runVars, cliVars, finVars, loopVars, orcVars, yearVars, singleVars, batchesVars, tradeVars>>
notExec == <<guardVars, planVars, runVars, cliVars, finVars, loopVars, orcVars, yearVars, singleVars, batchesVars, tradeVars>>
notPlan == <<guardVars, execVars, runVars, cliVars, finVars, loopVars, orcVars, yearVars, singleVars, batchesVars, tradeVars>>
notRun == <<guardVars, execVars, planVars, cliVars, finVars, loopVars, orcVars, yearVars, singleVars, batchesVars, tradeVars>>
notCli == <<guardVars, execVars, planVars, runVars, finVars, loopVars, orcVars, yearVars, singleVars, batchesVars, tradeVars>>
notFin == <<guardVars, execVars, planVars, runVars, cliVars, loopVars, orcVars, yearVars, singleVars, batchesVars, tradeVars>>
notLoop == <<guardVars, execVars, planVars, runVars, cliVars, finVars, orcVars, yearVars, singleVars, batchesVars, tradeVars>>
notOrc == <<guardVars, execVars, planVars, runVars, cliVars, finVars, loopVars, yearVars, singleVars, batchesVars, tradeVars>>
notYear == <<guardVars, execVars, planVars, runVars, cliVars, finVars, loopVars, orcVars, singleVars, batchesVars, tradeVars>>
notSingle == <<guardVars, execVars, planVars, runVars, cliVars, finVars, loopVars, orcVars, yearVars, batchesVars, tradeVars>>
notBatches == <<guardVars, execVars, planVars, runVars, cliVars, finVars, loopVars, orcVars, yearVars, singleVars, tradeVars>>
notTrade == <<guardVars, execVars, planVars, runVars, cliVars, finVars, loopVars, orcVars, yearVars, singleVars, batchesVars>>

(***************************************************************************)
(* HTTP path: the _xtdata_serialize dependency around a sync handler.      *)
(***************************************************************************)

\* asyncio.Lock.acquire() entered by "async with _xtdata_lock": the lock is
\* taken at once when it is free and nobody waits, otherwise the request
\* joins the FIFO queue of waiters.
HttpAcquire_NoLock(r) ==
    /\ reqPc[r] = "idle"
    /\ reqPc' = [reqPc EXCEPT ![r] = "handler"]
    /\ reqQueued' = [reqQueued EXCEPT ![r] = FALSE]
    /\ UNCHANGED <<lockHeld, waiters, lastRelease, wsPc, schedStep, schedNative>>
    /\ UNCHANGED notGuard

HttpAcquire(r) ==
    /\ reqPc[r] = "idle"
    /\ IF ~lockHeld /\ waiters = <<>>
       THEN /\ lockHeld' = TRUE
            /\ reqPc' = [reqPc EXCEPT ![r] = "handler"]
            /\ reqQueued' = [reqQueued EXCEPT ![r] = FALSE]
            /\ UNCHANGED waiters
       ELSE /\ waiters' = Append(waiters, r)
            /\ reqPc' = [reqPc EXCEPT ![r] = "waiting"]
            /\ reqQueued' = [reqQueued EXCEPT ![r] = TRUE]
            /\ UNCHANGED lockHeld
    /\ UNCHANGED <<lastRelease, wsPc, schedStep, schedNative>>
    /\ UNCHANGED notGuard

\* The first waiter is woken by release() and takes the lock; then the
\* dependency yields and FastAPI runs the handler in the thread pool.
HttpLockGranted(r) ==
    /\ reqPc[r] = "waiting"
    /\ waiters # <<>>
    /\ Head(waiters) = r
    /\ ~lockHeld
    /\ lockHeld' = TRUE
    /\ waiters' = Tail(waiters)
    /\ reqPc' = [reqPc EXCEPT ![r] = "handler"]
    /\ UNCHANGED <<reqQueued, lastRelease, wsPc, schedStep, schedNative>>
    /\ UNCHANGED notGuard

\* The handler calls into xtdata (a native-client call in the worker thread).
HandlerNativeCall(r) ==
    /\ reqPc[r] = "handler"
    /\ reqPc' = [reqPc EXCEPT ![r] = "native"]
    /\ UNCHANGED <<lockHeld, waiters, reqQueued, lastRelease, wsPc, schedStep, schedNative>>
    /\ UNCHANGED notGuard

\* The native call returns to the handler.
HandlerNativeReturn(r) ==
    /\ reqPc[r] = "native"
    /\ reqPc' = [reqPc EXCEPT ![r] = "handler"]
    /\ UNCHANGED <<lockHeld, waiters, reqQueued, lastRelease, wsPc, schedStep, schedNative>>
    /\ UNCHANGED notGuard

\* The handler returns: the dependency resumes after its yield and
\* "async with" releases the lock.
HandlerReturn(r) ==
    /\ reqPc[r] = "handler"
    /\ reqPc' = [reqPc EXCEPT ![r] = "done"]
    /\ lockHeld' = FALSE
    /\ lastRelease' = "return"
    /\ UNCHANGED <<waiters, reqQueued, wsPc, schedStep, schedNative>>
    /\ UNCHANGED notGuard

\* The handler (or the native call it is in) raises: the exception is thrown
\* into the dependency at its yield and "async with" releases the lock.
HandlerRaise_KeepsLock(r) ==
    /\ reqPc[r] \in {"handler", "native"}
    /\ reqPc' = [reqPc EXCEPT ![r] = "done"]
    /\ UNCHANGED <<lockHeld, lastRelease, waiters, reqQueued, wsPc, schedStep, schedNative>>
    /\ UNCHANGED notGuard

HandlerRaise(r) ==
    /\ reqPc[r] \in {"handler", "native"}
    /\ reqPc' = [reqPc EXCEPT ![r] = "done"]
    /\ lockHeld' = FALSE
    /\ lastRelease' = "raise"
    /\ UNCHANGED <<waiters, reqQueued, wsPc, schedStep, schedNative>>
    /\ UNCHANGED notGuard

\* The response is sent; the client issues its next request later.
HttpNextRequest(r) ==
    /\ reqPc[r] = "done"
    /\ reqPc' = [reqPc EXCEPT ![r] = "idle"]
    /\ UNCHANGED <<lockHeld, waiters, reqQueued, lastRelease, wsPc, schedStep, schedNative>>
    /\ UNCHANGED notGuard

(***************************************************************************)
(* WebSocket path: routers registered without the dependency.              *)
(***************************************************************************)
WsConnect_Serialized(w) ==
    /\ wsPc[w] = "closed"
    /\ ~lockHeld /\ waiters = <<>>
    /\ lockHeld' = TRUE
    /\ wsPc' = [wsPc EXCEPT ![w] = "open"]
    /\ UNCHANGED <<waiters, reqPc, reqQueued, lastRelease, schedStep, schedNative>>
    /\ UNCHANGED notGuard

WsConnect(w) ==
    /\ wsPc[w] = "closed"
    /\ wsPc' = [wsPc EXCEPT ![w] = "open"]
    /\ UNCHANGED <<lockHeld, waiters, reqPc, reqQueued, lastRelease, schedStep, schedNative>>
    /\ UNCHANGED notGuard

WsDisconnect(w) ==
    /\ wsPc[w] = "open"
    /\ wsPc' = [wsPc EXCEPT ![w] = "closed"]
    /\ UNCHANGED <<lockHeld, waiters, reqPc, reqQueued, lastRelease, schedStep, schedNative>>
    /\ UNCHANGED notGuard

(***************************************************************************)
(* Scheduler: scheduler_loop run by scheduler_main.  One cycle is the six  *)
(* DAILY_TASKS, the K-line incremental task of each period, the financial  *)
(* incremental task and the sleep.                                         *)
(***************************************************************************)
\* len(DAILY_TASKS)
NumDailyTasks == 6
\* number of configured K-line periods
NumPeriods == 2
\* steps of a cycle: daily tasks, K-line periods, financial, sleep
SchedSteps == NumDailyTasks + NumPeriods + 2

\* loop.run_in_executor(None, ...) of the current step's task: the native
\* calls of the task start in the executor.
SchedTaskStart ==
    /\ schedStep < SchedSteps
    /\ ~schedNative
    /\ schedNative' = TRUE
    /\ UNCHANGED <<lockHeld, waiters, reqPc, reqQueued, lastRelease, wsPc, schedStep>>
    /\ UNCHANGED notGuard

\* The task returns or raises (caught and logged); the loop goes on with the
\* next step.
SchedTaskEnd ==
    /\ schedNative
    /\ schedNative' = FALSE
    /\ schedStep' = schedStep + 1
    /\ UNCHANGED <<lockHeld, waiters, reqPc, reqQueued, lastRelease, wsPc>>
    /\ UNCHANGED notGuard

\* asyncio.sleep(86400) ends and the next cycle starts.
SchedSleepEnd ==
    /\ schedStep = SchedSteps
    /\ schedStep' = 1
    /\ UNCHANGED <<lockHeld, waiters, reqPc, reqQueued, lastRelease, wsPc, schedNative>>
    /\ UNCHANGED notGuard

(***************************************************************************)
(* Specification of the guard component.                                   *)
(***************************************************************************)
InitGuard ==
    /\ lockHeld = FALSE
    /\ waiters = <<>>
    /\ reqPc = [r \in Requests |-> "idle"]
    /\ reqQueued = [r \in Requests |-> FALSE]
    /\ lastRelease = "none"
    /\ wsPc = [w \in WsConns |-> "closed"]
    /\ schedStep = 1
    /\ schedNative = FALSE

ExecIdle ==
    /\ ePc = "off"
    /\ eStart = ""
    /\ eIncrArg = <<>>
    /\ eTimeout = 0
    /\ eParam = FALSE
    /\ eSent = -1
    /\ eNativeCalls = 0
    /\ eNativeResult = "none"
    /\ eDone = FALSE
    /\ eError = ""
    /\ eCb = [kind |-> "none", msg |-> <<>>]
    /\ eSawDone = FALSE
    /\ eConnected = TRUE
    /\ eConnLost = FALSE
    /\ eNow = 0
    /\ eDeadline = 0
    /\ eLastRead = "none"
    /\ eReads = 0
    /\ eResult = [status |-> "none", msg |-> ""]

PlanIdle ==
    /\ pPc = "off"
    /\ pVariant = "server"
    /\ pStocks = <<>>
    /\ pProbeLog = <<>>
    /\ pCache = <<>>
    /\ pBatch = 0
    /\ pLocalDates = <<>>
    /\ pProbeFailed = {}
    /\ pHasHistory = {}
    /\ pHistFailed = {}
    /\ pIncomplete = {}
    /\ pSorted = <<>>
    /\ pGroups = <<>>

RunIdle ==
    /\ rPc = "off"
    /\ rKind = "kline"
    /\ rGroups = <<>>
    /\ rCached = 0
    /\ rMaxRetries = 0
    /\ rScripted = FALSE
    /\ rGroup = 0
    /\ rRound = 0
    /\ rIndices = <<>>
    /\ rSeq = 0
    /\ resOk = 0
    /\ resFail = 0
    /\ resTo = 0
    /\ resFailed = <<>>
    /\ rOk = 0
    /\ rFailed = <<>>
    /\ totalOk = 0
    /\ totalFail = 0
    /\ totalTo = 0
    /\ rAttempts = <<>>
    /\ rStatus = <<>>
    /\ rLastRound = <<>>
    /\ rBase = 0
    /\ rTimeout = 0
    /\ rPrevTimeout = 0

CliIdle ==
    /\ cPc = "off"
    /\ cFull = FALSE
    /\ cSkipKline = FALSE
    /\ cSkipFin = FALSE
    /\ cNumPeriods = 0
    /\ cNumStocks = 0
    /\ cMaxRetries = 0
    /\ cDelay = FALSE
    /\ cNeed = 0
    /\ cPhase = "kline"
    /\ cPeriod = 0
    /\ cGroups = <<>>
    /\ cGroup = 0
    /\ cRound = 0
    /\ cIndices = <<>>
    /\ cSeq = 0
    /\ cOkCount = 0
    /\ cFailCount = 0
    /\ cToCount = 0
    /\ cFailedIdx = <<>>
    /\ cJobStatus = <<>>
    /\ cOk = 0
    /\ cFailed = <<>>
    /\ cInterrupted = FALSE
    /\ cTotalOk = 0
    /\ cTotalFail = 0
    /\ cTotalTo = 0
    /\ cResults = <<>>
    /\ cFinResult = <<>>
    /\ gInterrupted = FALSE
    /\ cInterrupts = 0
    /\ cIntJob = <<>>
    /\ cIntWhere = "none"
    /\ cPrevTasks = <<>>
    /\ cSaved = FALSE
    /\ cTasks = <<>>
    /\ cUnfinished = {}
    /\ cSummary = FALSE

FinIdle ==
    /\ fPc = "off"
    /\ fStocks = <<>>
    /\ fCache = <<>>
    /\ fBatch = 0
    /\ fFresh = {}
    /\ fStaleCount = 0
    /\ fIncompleteCount = 0
    /\ fProbeFailed = {}
    /\ fNeed = <<>>
    /\ fResult = <<>>

LoopIdle ==
    /\ sPc = "off"
    /\ sKlineEnabled = FALSE
    /\ sFinEnabled = FALSE
    /\ sNumPeriods = 0
    /\ sTask = 0
    /\ sCycle = 0
    /\ sElapsed = 0
    /\ sWake = 0
    /\ sGap = 0
    /\ sLog = <<>>
    /\ sDailyBusy = {}
    /\ sDailyRaised = 0
    /\ wPc = <<>>
    /\ wKind = <<>>
    /\ wPeriod = <<>>
    /\ sRunning = <<>>
    /\ sLastResult = <<>>
    /\ sLastRunTime = <<>>
    /\ sInFlight = <<>>

OrcIdle ==
    /\ oPc = "off"
    /\ oKind = "kline"
    /\ oN = 0
    /\ oBatchSize = 0
    /\ oMaxRetries = 0
    /\ oCache = <<>>
    /\ oRun = 0
    /\ oFreshAtStart = FALSE
    /\ oProbeRaised = FALSE
    /\ oJobs = <<>>
    /\ oCalls = <<>>
    /\ oResult = <<>>

YearIdle ==
    /\ yPc = "off"
    /\ yStocks = <<>>
    /\ yFull = FALSE
    /\ ySince = 0
    /\ yCache = <<>>
    /\ yYear = 0
    /\ yBatch = 0
    /\ yCoverage = <<>>
    /\ yRaised = {}
    /\ yGroups = <<>>

SingleIdle ==
    /\ kPc = "off"
    /\ kTimeout = 0
    /\ kNativeResult = "none"
    /\ kDone = FALSE
    /\ kError = ""
    /\ kConnected = TRUE
    /\ kNow = 0
    /\ kDeadline = 0
    /\ kLocal = "absent"
    /\ kReads = 0
    /\ kResult = "none"
    /\ kOkCount = 0
    /\ kFailCount = 0
    /\ kTimeoutCount = 0
    /\ kFailedIdx = <<>>

BatchesIdle ==
    /\ bPc = "off"
    /\ bBatches = <<>>
    /\ bDelay = FALSE
    /\ bMaxRetries = 0
    /\ bTimeout = 0
    /\ bRound = 0
    /\ bIndices = <<>>
    /\ bSeq = 0
    /\ bPolled = 0
    /\ bFuture = "pending"
    /\ bRunning = {}
    /\ bOkCount = 0
    /\ bFailCount = 0
    /\ bToCount = 0
    /\ bFailedIdx = <<>>
    /\ bFailed = <<>>

TradeIdle ==
    /\ tPc = "off"
    /\ tListeners = {}
    /\ tUsed = 0
    /\ tModified = FALSE
    /\ tVisited = {}
    /\ tCurrent = 0
    /\ tDead = {}
    /\ tDelivered = {}
    /\ tStayed = {}

NextGuard ==
    \/ \E r \in Requests : HttpAcquire(r)
    \/ \E r \in Requests : HttpLockGranted(r)
    \/ \E r \in Requests : HandlerNativeCall(r)
    \/ \E r \in Requests : HandlerNativeReturn(r)
    \/ \E r \in Requests : HandlerReturn(r)
    \/ \E r \in Requests : HandlerRaise(r)
    \/ \E r \in Requests : HttpNextRequest(r)
    \/ \E w \in WsConns : WsConnect(w)
    \/ \E w \in WsConns : WsDisconnect(w)

NextSched ==
    \/ SchedTaskStart
    \/ SchedTaskEnd
    \/ SchedSleepEnd

\* the API server alone: HTTP requests and WebSocket connections
\* the initial state of the API server: no executor call, no plan
InitServer == InitGuard /\ ExecIdle /\ PlanIdle /\ RunIdle /\ CliIdle /\ FinIdle /\ LoopIdle /\ OrcIdle /\ YearIdle /\ SingleIdle /\ BatchesIdle /\ TradeIdle

SpecGuard == InitServer /\ [][NextGuard]_vars

\* the API server together with the scheduler (qmt-server and qmt-scheduler)
NextGuardSched ==
    \/ NextGuard
    \/ NextSched

SpecGuardSched == InitServer /\ [][NextGuardSched]_vars

\* ---- /ws/download_progress: a download run of a WebSocket connection ----
\* download_progress.py 55-76: the parameters are received and
\* download_history_data2_safe goes to the default executor
WsDownloadStart(w) ==
    /\ wsPc[w] = "open"
    /\ wsPc' = [wsPc EXCEPT ![w] = "run"]
    /\ UNCHANGED <<lockHeld, waiters, reqPc, reqQueued, lastRelease, schedStep, schedNative>>
    /\ UNCHANGED notGuard

\* downloader.py 281-285: download_single_kline of the next instrument
\* enters client.supply_history_data2 in the executor's thread
WsNativeCall(w) ==
    /\ wsPc[w] = "run"
    /\ wsPc' = [wsPc EXCEPT ![w] = "native"]
    /\ UNCHANGED <<lockHeld, waiters, reqPc, reqQueued, lastRelease, schedStep, schedNative>>
    /\ UNCHANGED notGuard

\* downloader.py 285-300: the call is over and its status reported
WsNativeReturn(w) ==
    /\ wsPc[w] = "native"
    /\ wsPc' = [wsPc EXCEPT ![w] = "run"]
    /\ UNCHANGED <<lockHeld, waiters, reqPc, reqQueued, lastRelease, schedStep, schedNative>>
    /\ UNCHANGED notGuard

\* downloader.py 302 and download_progress.py 78-83: the run returns, the
\* results are sent and the endpoint ends
WsDownloadDone(w) ==
    /\ wsPc[w] = "run"
    /\ wsPc' = [wsPc EXCEPT ![w] = "closed"]
    /\ UNCHANGED <<lockHeld, waiters, reqPc, reqQueued, lastRelease, schedStep, schedNative>>
    /\ UNCHANGED notGuard

NextWsDownload ==
    \/ \E w \in WsConns : WsDownloadStart(w)
    \/ \E w \in WsConns : WsNativeCall(w)
    \/ \E w \in WsConns : WsNativeReturn(w)
    \/ \E w \in WsConns : WsDownloadDone(w)

\* the API server with download runs on its /ws/download_progress connections
NextGuardWs ==
    \/ NextGuard
    \/ NextWsDownload

SpecGuardWs == InitServer /\ [][NextGuardWs]_vars

\* A request that holds the lock finishes (handlers and native calls
\* terminate) and the event loop resumes a woken waiter; nothing is assumed
\* about arrivals or WebSocket connections.
GuardFairness ==
    \A r \in Requests :
        /\ WF_vars(HttpLockGranted(r))
        /\ WF_vars(HandlerNativeReturn(r))
        /\ WF_vars(HandlerReturn(r) \/ HandlerRaise(r))

FairSpecGuard == SpecGuard /\ GuardFairness

(***************************************************************************)
(* Properties of the guard component.                                      *)
(***************************************************************************)
\* the requests whose handler is executing (in the thread pool)
InHandler == {r \in Requests : reqPc[r] \in {"handler", "native"}}
\* the requests that are inside a native-client call
InNative == {r \in Requests : reqPc[r] = "native"}
WsOpen == {w \in WsConns : wsPc[w] = "open"}

\* C1: the handlers of concurrent requests to guarded routes never overlap:
\* at any instant at most one handler is executing, hence at most one
\* native-client call of the HTTP path.
C1_HandlersNeverOverlap ==
    /\ Cardinality(InHandler) <= 1
    /\ Cardinality(InNative) <= 1

\* Two requests are in progress at once: one inside its native call, the
\* other suspended on the lock.
C1_Witness ==
    \E r1, r2 \in Requests :
        r1 # r2 /\ reqPc[r1] = "native" /\ reqPc[r2] = "waiting"

\* C2: a native call issued by a scheduler task is never in flight at the
\* same instant as a native call of an HTTP handler (both would hold the one
\* shared guard).
C2_SchedulerSharesGuard ==
    ~(schedNative /\ InNative # {})

\* C3: the guard is released when a handler raises: whenever no handler is
\* executing the lock is free, and every request waiting for the lock
\* eventually gets it.
C3_GuardReleasedOnRaise ==
    /\ [](InHandler = {} => ~lockHeld)
    /\ \A r \in Requests : (reqPc[r] = "waiting") ~> (reqPc[r] = "handler")

\* The lock was last released by a handler that raised, and a request that
\* had been waiting now holds it.
C3_Witness ==
    /\ lastRelease = "raise"
    /\ \E r \in Requests : reqPc[r] = "handler" /\ reqQueued[r]

\* C4: WebSocket endpoints never acquire the guard: the lock is only ever
\* held on behalf of an executing HTTP handler, and a request waiting for the
\* lock while WebSocket connections are open (for however long) still
\* acquires it and completes.
C4_WebSocketsNeverHoldGuard ==
    /\ [](lockHeld => InHandler # {})
    /\ \A r \in Requests :
          (reqPc[r] = "waiting" /\ WsOpen # {}) ~> (reqPc[r] = "done")

\* Every WebSocket connection is open while a request that had to queue is
\* executing its native call under the lock.
C4_Witness ==
    /\ WsOpen = WsConns
    /\ \E r \in Requests : reqPc[r] = "native" /\ reqQueued[r]

(***************************************************************************)
(* download_single_kline: one call into client.supply_history_data2 with   *)
(* a polling wait (server/downloader.py).                                  *)
(***************************************************************************)
\* largest timeout argument, in poll intervals
MaxTimeout == 2
\* the clock is advanced by the environment (scheduling delays, slow calls)
\* up to this value; time.sleep always advances it
MaxClock == 3

\* the values of start_time: empty (full history) or a date
StartTimes == {"", "20240101"}
\* incrementally: None, True, False
IncrArgs == {<<>>, <<TRUE>>, <<FALSE>>}
\* payloads of the progress callback: data.get("total", 0),
\* data.get("finished", 0), and the optional "message" (<<>> when absent)
CbTotals == {-1, 0, 2}
CbFinished == {0, 2}
CbMessages == {<<>>, <<"">>, <<"no data">>}
\* what xtdata.get_local_data gives for the code: it raises, the code is not
\* in the result, its entry is None, an empty frame, or a frame with data
LocalReads == {"raise", "absent", "none", "empty", "data"}

\* bool(s) of a Python str
PyBool(s) == s # ""

\* lines 197-198: incrementally = not bool(start_time) when None
Incrementally_Inverted(incr, start) ==
    IF incr = <<>> THEN PyBool(start) ELSE incr[1]

Incrementally(incr, start) ==
    IF incr = <<>> THEN ~PyBool(start) ELSE incr[1]

\* BSON.encode of {"incrementally": b}: the value byte of a BSON boolean
BsonBool(b) == IF b THEN 1 ELSE 0

\* line 234: code in check and check[code] is not None and not check[code].empty
LocalReadConfirms(read) == read = "data"

\* data.get("message", "unknown error")
CbMessage(m) == IF m = <<>> THEN "unknown error" ELSE m[1]

ExecReturn(st, msg) ==
    /\ ePc' = "returned"
    /\ eResult' = [status |-> st, msg |-> msg]

\* lines 195-202: resolve incrementally, build param, status
ExecStart ==
    /\ ePc = "start"
    /\ eParam' = Incrementally(eIncrArg, eStart)
    /\ ePc' = "call"
    /\ UNCHANGED <<eStart, eIncrArg, eTimeout, eSent, eNativeCalls, eNativeResult,
                   eDone, eError, eCb, eSawDone, eConnected, eConnLost, eNow,
                   eDeadline, eLastRead, eReads, eResult>>
    /\ UNCHANGED notExec

\* lines 215-217: client.supply_history_data2(...) returns True (cached),
\* False (accepted asynchronously) or raises
ExecNativeCall ==
    /\ ePc = "call"
    /\ eNativeCalls' = eNativeCalls + 1
    /\ eSent' = BsonBool(eParam)
    /\ \E res \in {"cached", "async", "raise"} :
          /\ eNativeResult' = res
          /\ ePc' = CASE res = "cached" -> "c_deadline"
                      [] res = "async" -> "a_deadline"
                      [] OTHER -> "raised"
    /\ UNCHANGED <<eStart, eIncrArg, eTimeout, eParam, eDone, eError, eCb,
                   eSawDone, eConnected, eConnLost, eNow, eDeadline, eLastRead,
                   eReads, eResult>>
    /\ UNCHANGED notExec

\* ---- result = True: poll the local data ----
\* line 223
CachedDeadline ==
    /\ ePc = "c_deadline"
    /\ eDeadline' = eNow + eTimeout
    /\ ePc' = "c_conn"
    /\ UNCHANGED <<eStart, eIncrArg, eTimeout, eParam, eSent, eNativeCalls,
                   eNativeResult, eDone, eError, eCb, eSawDone, eConnected,
                   eConnLost, eNow, eLastRead, eReads, eResult>>
    /\ UNCHANGED notExec

\* lines 225-226
CachedConnCheck ==
    /\ ePc = "c_conn"
    /\ IF ~eConnected
       THEN ExecReturn("disconnected", "")
       ELSE ePc' = "c_read" /\ UNCHANGED eResult
    /\ UNCHANGED <<eStart, eIncrArg, eTimeout, eParam, eSent, eNativeCalls,
                   eNativeResult, eDone, eError, eCb, eSawDone, eConnected,
                   eConnLost, eNow, eDeadline, eLastRead, eReads>>
    /\ UNCHANGED notExec

\* lines 227-237: the local read; "ok" when it shows data, an exception is
\* swallowed
CachedRead ==
    /\ ePc = "c_read"
    /\ eReads' = eReads + 1
    /\ \E read \in LocalReads :
          /\ eLastRead' = read
          /\ IF read # "raise" /\ LocalReadConfirms(read)
             THEN ExecReturn("ok", "")
             ELSE ePc' = "c_time" /\ UNCHANGED eResult
    /\ UNCHANGED <<eStart, eIncrArg, eTimeout, eParam, eSent, eNativeCalls,
                   eNativeResult, eDone, eError, eCb, eSawDone, eConnected,
                   eConnLost, eNow, eDeadline>>
    /\ UNCHANGED notExec

\* lines 238-239
CachedTimeCheck_NoDeadline ==
    /\ ePc = "c_time"
    /\ ePc' = "c_sleep"
    /\ UNCHANGED <<eStart, eIncrArg, eTimeout, eParam, eSent, eNativeCalls,
                   eNativeResult, eDone, eError, eCb, eSawDone, eConnected,
                   eConnLost, eNow, eDeadline, eLastRead, eReads, eResult>>
    /\ UNCHANGED notExec

CachedTimeCheck ==
    /\ ePc = "c_time"
    /\ IF eNow >= eDeadline
       THEN ExecReturn("timeout", "")
       ELSE ePc' = "c_sleep" /\ UNCHANGED eResult
    /\ UNCHANGED <<eStart, eIncrArg, eTimeout, eParam, eSent, eNativeCalls,
                   eNativeResult, eDone, eError, eCb, eSawDone, eConnected,
                   eConnLost, eNow, eDeadline, eLastRead, eReads>>
    /\ UNCHANGED notExec

\* line 240: time.sleep(0.1)
CachedSleep ==
    /\ ePc = "c_sleep"
    /\ eNow' = eNow + 1
    /\ ePc' = "c_conn"
    /\ UNCHANGED <<eStart, eIncrArg, eTimeout, eParam, eSent, eNativeCalls,
                   eNativeResult, eDone, eError, eCb, eSawDone, eConnected,
                   eConnLost, eDeadline, eLastRead, eReads, eResult>>
    /\ UNCHANGED notExec

\* ---- result = False: wait for the progress callback ----
\* line 242
AsyncDeadline ==
    /\ ePc = "a_deadline"
    /\ eDeadline' = eNow + eTimeout
    /\ ePc' = "a_loop"
    /\ UNCHANGED <<eStart, eIncrArg, eTimeout, eParam, eSent, eNativeCalls,
                   eNativeResult, eDone, eError, eCb, eSawDone, eConnected,
                   eConnLost, eNow, eLastRead, eReads, eResult>>
    /\ UNCHANGED notExec

\* line 243: while not status["done"]
AsyncLoopTest ==
    /\ ePc = "a_loop"
    /\ IF eDone
       THEN ePc' = "a_exit" /\ eSawDone' = TRUE
       ELSE ePc' = "a_conn" /\ UNCHANGED eSawDone
    /\ UNCHANGED <<eStart, eIncrArg, eTimeout, eParam, eSent, eNativeCalls,
                   eNativeResult, eDone, eError, eCb, eConnected, eConnLost,
                   eNow, eDeadline, eLastRead, eReads, eResult>>
    /\ UNCHANGED notExec

\* lines 244-245
AsyncConnCheck ==
    /\ ePc = "a_conn"
    /\ IF ~eConnected
       THEN ExecReturn("disconnected", "")
       ELSE ePc' = "a_time" /\ UNCHANGED eResult
    /\ UNCHANGED <<eStart, eIncrArg, eTimeout, eParam, eSent, eNativeCalls,
                   eNativeResult, eDone, eError, eCb, eSawDone, eConnected,
                   eConnLost, eNow, eDeadline, eLastRead, eReads>>
    /\ UNCHANGED notExec

\* lines 246-247
AsyncTimeCheck_Retries ==
    /\ ePc = "a_time"
    /\ IF eNow >= eDeadline
       THEN ePc' = "call"
       ELSE ePc' = "a_sleep"
    /\ UNCHANGED <<eStart, eIncrArg, eTimeout, eParam, eSent, eNativeCalls,
                   eNativeResult, eDone, eError, eCb, eSawDone, eConnected,
                   eConnLost, eNow, eDeadline, eLastRead, eReads, eResult>>
    /\ UNCHANGED notExec

AsyncTimeCheck ==
    /\ ePc = "a_time"
    /\ IF eNow >= eDeadline
       THEN ExecReturn("timeout", "")
       ELSE ePc' = "a_sleep" /\ UNCHANGED eResult
    /\ UNCHANGED <<eStart, eIncrArg, eTimeout, eParam, eSent, eNativeCalls,
                   eNativeResult, eDone, eError, eCb, eSawDone, eConnected,
                   eConnLost, eNow, eDeadline, eLastRead, eReads>>
    /\ UNCHANGED notExec

\* line 248: time.sleep(0.1)
AsyncSleep ==
    /\ ePc = "a_sleep"
    /\ eNow' = eNow + 1
    /\ ePc' = "a_loop"
    /\ UNCHANGED <<eStart, eIncrArg, eTimeout, eParam, eSent, eNativeCalls,
                   eNativeResult, eDone, eError, eCb, eSawDone, eConnected,
                   eConnLost, eDeadline, eLastRead, eReads, eResult>>
    /\ UNCHANGED notExec

\* lines 250-252
AsyncExit ==
    /\ ePc = "a_exit"
    /\ IF PyBool(eError)
       THEN ExecReturn("error", eError)
       ELSE ExecReturn("ok", "")
    /\ UNCHANGED <<eStart, eIncrArg, eTimeout, eParam, eSent, eNativeCalls,
                   eNativeResult, eDone, eError, eCb, eSawDone, eConnected,
                   eConnLost, eNow, eDeadline, eLastRead, eReads>>
    /\ UNCHANGED notExec

\* ---- the environment of the call ----
\* lines 204-213: on_progress(data), invoked by the native client's thread
\* while the asynchronous download is outstanding; it is not invoked again
\* once it has returned True
OnProgress ==
    /\ eNativeResult = "async"
    /\ ePc \in {"a_deadline", "a_loop", "a_conn", "a_time", "a_sleep"}
    /\ ~eDone
    /\ \E total \in CbTotals, finished \in CbFinished, m \in CbMessages :
          IF total < 0
          THEN /\ eError' = CbMessage(m)
               /\ eDone' = TRUE
               /\ eCb' = [kind |-> "error", msg |-> m]
          ELSE IF finished >= total /\ total > 0
          THEN /\ eDone' = TRUE
               /\ eCb' = [kind |-> "complete", msg |-> m]
               /\ UNCHANGED eError
          ELSE UNCHANGED <<eDone, eError, eCb>>
    /\ UNCHANGED <<ePc, eStart, eIncrArg, eTimeout, eParam, eSent, eNativeCalls,
                   eNativeResult, eSawDone, eConnected, eConnLost, eNow,
                   eDeadline, eLastRead, eReads, eResult>>
    /\ UNCHANGED notExec

ExecWaiting ==
    ePc \in {"c_deadline", "c_conn", "c_read", "c_time", "c_sleep",
             "a_deadline", "a_loop", "a_conn", "a_time", "a_sleep", "a_exit"}

\* the connection to the data service drops
ConnectionLost ==
    /\ ExecWaiting
    /\ eConnected
    /\ eConnected' = FALSE
    /\ eConnLost' = TRUE
    /\ UNCHANGED <<ePc, eStart, eIncrArg, eTimeout, eParam, eSent, eNativeCalls,
                   eNativeResult, eDone, eError, eCb, eSawDone, eNow, eDeadline,
                   eLastRead, eReads, eResult>>
    /\ UNCHANGED notExec

\* the connection comes back
ConnectionRestored ==
    /\ ExecWaiting
    /\ ~eConnected
    /\ eConnected' = TRUE
    /\ UNCHANGED <<ePc, eStart, eIncrArg, eTimeout, eParam, eSent, eNativeCalls,
                   eNativeResult, eDone, eError, eCb, eSawDone, eConnLost, eNow,
                   eDeadline, eLastRead, eReads, eResult>>
    /\ UNCHANGED notExec

\* time passes between two steps of the call
ClockTick ==
    /\ ExecWaiting
    /\ eNow < MaxClock
    /\ eNow' = eNow + 1
    /\ UNCHANGED <<ePc, eStart, eIncrArg, eTimeout, eParam, eSent, eNativeCalls,
                   eNativeResult, eDone, eError, eCb, eSawDone, eConnected,
                   eConnLost, eDeadline, eLastRead, eReads, eResult>>
    /\ UNCHANGED notExec

\* the steps of download_single_kline itself
ExecStep ==
    \/ ExecStart
    \/ ExecNativeCall
    \/ CachedDeadline
    \/ CachedConnCheck
    \/ CachedRead
    \/ CachedTimeCheck
    \/ CachedSleep
    \/ AsyncDeadline
    \/ AsyncLoopTest
    \/ AsyncConnCheck
    \/ AsyncTimeCheck
    \/ AsyncSleep
    \/ AsyncExit

ExecEnv ==
    \/ OnProgress
    \/ ConnectionLost
    \/ ConnectionRestored
    \/ ClockTick

\* a call with arguments drawn from the bounded sets
InitExec ==
    /\ ePc = "start"
    /\ eStart \in StartTimes
    /\ eIncrArg \in IncrArgs
    /\ eTimeout \in 0..MaxTimeout
    /\ eParam = FALSE
    /\ eSent = -1
    /\ eNativeCalls = 0
    /\ eNativeResult = "none"
    /\ eDone = FALSE
    /\ eError = ""
    /\ eCb = [kind |-> "none", msg |-> <<>>]
    /\ eSawDone = FALSE
    /\ eConnected = TRUE
    /\ eConnLost = FALSE
    /\ eNow = 0
    /\ eDeadline = 0
    /\ eLastRead = "none"
    /\ eReads = 0
    /\ eResult = [status |-> "none", msg |-> ""]

NextExec ==
    \/ ExecStep
    \/ ExecEnv

\* a call of download_single_kline on its own
InitExecOnly == InitGuard /\ InitExec /\ PlanIdle /\ RunIdle /\ CliIdle /\ FinIdle /\ LoopIdle /\ OrcIdle /\ YearIdle /\ SingleIdle /\ BatchesIdle /\ TradeIdle

SpecExec == InitExecOnly /\ [][NextExec]_vars

\* the thread running download_single_kline keeps being scheduled
FairSpecExec == SpecExec /\ WF_vars(ExecStep)

(***************************************************************************)
(* Properties of download_single_kline.                                    *)
(***************************************************************************)
ExecFinished == ePc \in {"returned", "raised"}
ExecStatuses == {"ok", "timeout", "disconnected", "error"}

\* C5: when the native call returns true (cached) the callback is never
\* waited for: the call returns ok as soon as a local read shows data, ok is
\* returned only after such a read, at most timeout + 1 polls are made (a
\* timeout is returned at the first deadline test that finds the deadline
\* passed), and the call returns.
C5_CachedPathConfirms ==
    /\ [](eNativeResult = "cached" =>
            /\ ~eDone
            /\ (eLastRead = "data" => ePc = "returned" /\ eResult.status = "ok")
            /\ (ePc = "returned" /\ eResult.status = "ok" => eLastRead = "data")
            /\ (ePc = "returned" /\ eResult.status = "timeout" => eNow >= eDeadline)
            /\ eReads <= eTimeout + 1)
    /\ (eNativeResult = "cached") ~> (ePc = "returned")

\* The cached path returned ok on a poll after the first one, with the
\* callback never invoked.
C5_Witness ==
    /\ eNativeResult = "cached"
    /\ ePc = "returned"
    /\ eResult.status = "ok"
    /\ eReads >= 2
    /\ eCb.kind = "none"

\* C6 as stated: every call returns (never raises) one of the four statuses
\* after exactly one native call, and returns timeout when nothing confirmed
\* completion while the connection stayed up.
C6_AlwaysReturnsStatus ==
    /\ eNativeCalls <= 1
    /\ ePc # "raised"
    /\ (ePc = "returned" => eNativeCalls = 1 /\ eResult.status \in ExecStatuses)
    /\ (ePc = "returned" /\ ~eSawDone /\ eLastRead # "data" /\ ~eConnLost
           => eResult.status = "timeout" /\ eNow >= eDeadline)

\* C6 (amended): every call terminates, either returning one of the four
\* statuses or propagating the exception raised by the native download call;
\* the native download call is issued exactly once; with no completion seen,
\* no confirming read and the connection up throughout, the status is
\* timeout and the deadline has passed.
C6_TerminatesAfterOneCall ==
    /\ [](eNativeCalls <= 1)
    /\ [](ExecFinished =>
            /\ eNativeCalls = 1
            /\ \/ ePc = "returned" /\ eResult.status \in ExecStatuses
               \/ ePc = "raised" /\ eNativeResult = "raise")
    /\ [](ePc = "returned" /\ ~eSawDone /\ eLastRead # "data" /\ ~eConnLost
            => eResult.status = "timeout" /\ eNow >= eDeadline)
    /\ <>ExecFinished

\* A call that returned timeout on the asynchronous path with the
\* connection up throughout and no callback completing it.
C6_Witness ==
    /\ ePc = "returned"
    /\ eNativeResult = "async"
    /\ eResult.status = "timeout"
    /\ ~eConnLost
    /\ ~eDone
    /\ eNativeCalls = 1

\* C7: on the asynchronous path the result is: error with the callback's
\* message when the wait ended by a callback with total < 0; ok when it
\* ended by a callback with finished >= total > 0; disconnected when the
\* connection was found lost before done; and timeout otherwise, with the
\* deadline passed.
C7_AsyncOutcome ==
    (eNativeResult = "async" /\ ePc = "returned") =>
        /\ (eSawDone /\ eCb.kind = "error" =>
               eResult = [status |-> "error", msg |-> CbMessage(eCb.msg)])
        /\ (eSawDone /\ eCb.kind = "complete" => eResult.status = "ok")
        /\ (~eSawDone =>
               \/ eResult.status = "disconnected" /\ eConnLost
               \/ eResult.status = "timeout" /\ eNow >= eDeadline)

\* C8: with incrementally = None the native call receives incrementally =
\* true exactly when start_time is empty; a given true or false is sent as
\* it is.
C8_IncrementallyDefault ==
    eNativeCalls > 0 =>
        /\ (eIncrArg = <<>> => (eSent = 1 <=> eStart = ""))
        /\ (eIncrArg = <<TRUE>> => eSent = 1)
        /\ (eIncrArg = <<FALSE>> => eSent = 0)
        /\ eSent \in {0, 1}

\* The native call was issued with incrementally left unspecified and a
\* non-empty start bound.
C8_Witness ==
    /\ eNativeCalls = 1
    /\ eIncrArg = <<>>
    /\ eStart # ""
    /\ eSent = 0

(***************************************************************************)
(* download_kline_incremental: coverage probe, history completeness check  *)
(* and the planned job list (server/downloader.py).                        *)
(***************************************************************************)
\* number of instruments of the universe
NumInstruments == 3
\* instruments per probe batch (200 in the source, scaled to the universe)
PROBE_BATCH_SIZE == 2
\* SAFETY_OVERLAP_DAYS
SAFETY_OVERLAP_DAYS == 1
\* datetime.now().strftime("%Y%m%d")
Today == 20240302
\* the empty string as a start or end bound
NoDate == 0

Instruments == 1..NumInstruments
\* the "YYYYMMDD" dates a cache can end at
CacheDates == {20230301, 20240101, 20240301}
\* local cache of an instrument: the date of its last bar (NoDate when it
\* has no data) and whether it has bars in the sentinel year
CacheStates ==
    {[last |-> NoDate, hist |-> FALSE]}
        \cup [last : CacheDates, hist : BOOLEAN]

Range(f) == {f[i] : i \in DOMAIN f}
Min(a, b) == IF a <= b THEN a ELSE b

\* the lists of distinct instruments (get_stock_list removes duplicates);
\* instruments are interchangeable and every assignment of cache states to
\* them is an initial state, so the lists 1..n stand for all orders
StockLists == {[i \in 1..n |-> i] : n \in 0..NumInstruments}

\* ---- datetime ----
IsLeap(y) == (y % 4 = 0 /\ y % 100 # 0) \/ y % 400 = 0

DaysInMonth(y, m) ==
    IF m = 2 THEN (IF IsLeap(y) THEN 29 ELSE 28)
    ELSE IF m \in {4, 6, 9, 11} THEN 30 ELSE 31

\* datetime.strptime(s, "%Y%m%d")
ParseDate(s) == [y |-> s \div 10000, m |-> (s \div 100) % 100, d |-> s % 100]

\* dt.strftime("%Y%m%d")
FormatDate(dt) == dt.y * 10000 + dt.m * 100 + dt.d

\* dt - timedelta(days=1)
PrevDay(dt) ==
    IF dt.d > 1 THEN [dt EXCEPT !.d = dt.d - 1]
    ELSE IF dt.m > 1
         THEN [y |-> dt.y, m |-> dt.m - 1, d |-> DaysInMonth(dt.y, dt.m - 1)]
         ELSE [y |-> dt.y - 1, m |-> 12, d |-> 31]

\* dt - timedelta(days=n)
RECURSIVE MinusDays(_, _)
MinusDays(dt, n) == IF n = 0 THEN dt ELSE MinusDays(PrevDay(dt), n - 1)

\* days of the year before month m
RECURSIVE DaysBeforeMonth(_, _)
DaysBeforeMonth(y, m) ==
    IF m = 1 THEN 0 ELSE DaysBeforeMonth(y, m - 1) + DaysInMonth(y, m - 1)

\* dt.toordinal(): the day number in the proleptic Gregorian calendar
Ordinal(dt) ==
    LET p == dt.y - 1
    IN  365 * p + p \div 4 - p \div 100 + p \div 400
            + DaysBeforeMonth(dt.y, dt.m) + dt.d

\* (a - b).days
DaysBetween(a, b) == Ordinal(a) - Ordinal(b)

\* ---- make_batches ----
\* lst[i : i + size] for the k-th batch (k from 0)
Batch(lst, k, size) ==
    SubSeq(lst, k * size + 1, Min(Len(lst), (k + 1) * size))

\* number of batches: len(range(0, len(lst), size))
NumBatches(lst, size) == (Len(lst) + size - 1) \div size

\* [s for s in stocks if s in local_dates]
RECURSIVE WithCache(_, _)
WithCache(stocks, dates) ==
    IF stocks = <<>> THEN <<>>
    ELSE (IF dates[Head(stocks)] # NoDate THEN <<Head(stocks)>> ELSE <<>>)
             \o WithCache(Tail(stocks), dates)

\* ---- the plan ----
\* a sort key that ranks incomplete instruments by their last date
GapSortKey_NoIncomplete(s, dates, incomplete) ==
    IF dates[s] = NoDate THEN 999999
    ELSE DaysBetween(ParseDate(Today), ParseDate(dates[s]))

\* lines 484-490: _gap_sort_key
GapSortKey(s, dates, incomplete) ==
    IF dates[s] = NoDate THEN 999999
    ELSE IF s \in incomplete THEN 999998
    ELSE DaysBetween(ParseDate(Today), ParseDate(dates[s]))

\* sorted(..., reverse=True) is stable: x goes behind every element whose
\* key is not smaller than its own
RECURSIVE InsertByGap(_, _, _, _)
InsertByGap(sorted, x, dates, incomplete) ==
    IF sorted = <<>> THEN <<x>>
    ELSE IF GapSortKey(Head(sorted), dates, incomplete)
               >= GapSortKey(x, dates, incomplete)
         THEN <<Head(sorted)>> \o InsertByGap(Tail(sorted), x, dates, incomplete)
         ELSE <<x>> \o sorted

\* line 492: sorted(stocks, key=_gap_sort_key, reverse=True)
RECURSIVE SortByGap(_, _, _)
SortByGap(stocks, dates, incomplete) ==
    IF stocks = <<>> THEN <<>>
    ELSE InsertByGap(SortByGap(SubSeq(stocks, 1, Len(stocks) - 1), dates, incomplete),
                     stocks[Len(stocks)], dates, incomplete)

\* lines 495-500: the start bound of the job of s
StartBound_NoOverlap(s, dates, incomplete) ==
    IF dates[s] # NoDate /\ s \notin incomplete
    THEN FormatDate(ParseDate(dates[s]))
    ELSE NoDate

StartBound_AbsentFromToday(s, dates, incomplete) ==
    IF dates[s] # NoDate /\ s \notin incomplete
    THEN FormatDate(MinusDays(ParseDate(dates[s]), SAFETY_OVERLAP_DAYS))
    ELSE IF dates[s] = NoDate
    THEN FormatDate(MinusDays(ParseDate(Today), SAFETY_OVERLAP_DAYS))
    ELSE NoDate

StartBound(s, dates, incomplete) ==
    IF dates[s] # NoDate /\ s \notin incomplete
    THEN FormatDate(MinusDays(ParseDate(dates[s]), SAFETY_OVERLAP_DAYS))
    ELSE NoDate

\* the frames get_local_data can return for a batch: every instrument that
\* has bars comes with its frame, one that has none is missing from the
\* result or comes with an empty frame
Frames(batch) ==
    {[keys |-> {s \in Range(batch) : pCache[s].last # NoDate} \cup empty,
      empty |-> empty] :
        empty \in SUBSET {s \in Range(batch) : pCache[s].last = NoDate}}

\* the call of one batch, as the probe issued it and as it came back
ProbeCall(batch, raises, data) ==
    [stocks |-> batch, count |-> 1, raised |-> raises,
     keys |-> IF raises THEN {} ELSE data.keys,
     empty |-> IF raises THEN {} ELSE data.empty]

\* a probe whose raising batch still leaves entries in the map
ProbeBatch_KeepsEntries ==
    /\ pPc = "probe"
    /\ pBatch < NumBatches(pStocks, PROBE_BATCH_SIZE)
    /\ LET batch == Batch(pStocks, pBatch, PROBE_BATCH_SIZE)
       IN  \E raises \in BOOLEAN, data \in Frames(batch) :
              /\ raises => data.empty = {}
              /\ pProbeLog' = Append(pProbeLog, ProbeCall(batch, raises, data))
              /\ pLocalDates' =
                     [s \in Instruments |->
                         IF s \in data.keys \ data.empty
                         THEN pCache[s].last
                         ELSE pLocalDates[s]]
              /\ pProbeFailed' =
                     IF raises THEN pProbeFailed \cup Range(batch) ELSE pProbeFailed
    /\ pBatch' = pBatch + 1
    /\ UNCHANGED <<pVariant, pPc, pStocks, pCache, pHasHistory, pHistFailed,
                   pIncomplete, pSorted, pGroups>>
    /\ UNCHANGED notPlan

\* a probe that writes an entry for every key of the result
ProbeBatch_KeepsEmptyFrames ==
    /\ pPc = "probe"
    /\ pBatch < NumBatches(pStocks, PROBE_BATCH_SIZE)
    /\ LET batch == Batch(pStocks, pBatch, PROBE_BATCH_SIZE)
       IN  \E raises \in BOOLEAN, data \in Frames(batch) :
              /\ raises => data.empty = {}
              /\ pProbeLog' = Append(pProbeLog, ProbeCall(batch, raises, data))
              /\ IF raises
                 THEN /\ pProbeFailed' = pProbeFailed \cup Range(batch)
                      /\ UNCHANGED pLocalDates
                 ELSE /\ pLocalDates' =
                            [s \in Instruments |->
                                IF s \in data.empty THEN Today
                                ELSE IF s \in data.keys THEN pCache[s].last
                                ELSE pLocalDates[s]]
                      /\ UNCHANGED pProbeFailed
    /\ pBatch' = pBatch + 1
    /\ UNCHANGED <<pVariant, pPc, pStocks, pCache, pHasHistory, pHistFailed,
                   pIncomplete, pSorted, pGroups>>
    /\ UNCHANGED notPlan

\* lines 313-331: one batch of probe_local_dates; get_local_data raises (the
\* batch is logged and skipped) or gives the frames of the batch, and every
\* instrument with a frame that is not empty gets the date of its last bar
ProbeBatch ==
    /\ pPc = "probe"
    /\ pBatch < NumBatches(pStocks, PROBE_BATCH_SIZE)
    /\ LET batch == Batch(pStocks, pBatch, PROBE_BATCH_SIZE)
       IN  \E raises \in BOOLEAN, data \in Frames(batch) :
              /\ raises => data.empty = {}
              /\ pProbeLog' = Append(pProbeLog, ProbeCall(batch, raises, data))
              /\ IF raises
                 THEN /\ pProbeFailed' = pProbeFailed \cup Range(batch)
                      /\ UNCHANGED pLocalDates
                 ELSE /\ pLocalDates' =
                            [s \in Instruments |->
                                IF s \in data.keys \ data.empty
                                THEN pCache[s].last
                                ELSE pLocalDates[s]]
                      /\ UNCHANGED pProbeFailed
    /\ pBatch' = pBatch + 1
    /\ UNCHANGED <<pVariant, pPc, pStocks, pCache, pHasHistory, pHistFailed,
                   pIncomplete, pSorted, pGroups>>
    /\ UNCHANGED notPlan

\* lines 460-468: the probe returned; the history check starts (mode C of
\* the CLI script has no history check and plans at once)
ProbeDone ==
    /\ pPc = "probe"
    /\ pBatch = NumBatches(pStocks, PROBE_BATCH_SIZE)
    /\ pPc' = IF pVariant = "cli" THEN "plan" ELSE "history"
    /\ pBatch' = 0
    /\ UNCHANGED <<pProbeLog, pVariant, pStocks, pCache, pLocalDates, pProbeFailed, pHasHistory,
                   pHistFailed, pIncomplete, pSorted, pGroups>>
    /\ UNCHANGED notPlan

\* lines 469-480: one batch of the sentinel-year probe over stocks_with_cache
HistoryBatch ==
    /\ pPc = "history"
    /\ pBatch < NumBatches(WithCache(pStocks, pLocalDates), PROBE_BATCH_SIZE)
    /\ LET batch == Batch(WithCache(pStocks, pLocalDates), pBatch, PROBE_BATCH_SIZE)
       IN  \E raises \in BOOLEAN :
              IF raises
              THEN /\ pHistFailed' = pHistFailed \cup Range(batch)
                   /\ UNCHANGED pHasHistory
              ELSE /\ pHasHistory' =
                         pHasHistory \cup {s \in Range(batch) : pCache[s].hist}
                   /\ UNCHANGED pHistFailed
    /\ pBatch' = pBatch + 1
    /\ UNCHANGED <<pProbeLog, pVariant, pPc, pStocks, pCache, pLocalDates, pProbeFailed, pIncomplete,
                   pSorted, pGroups>>
    /\ UNCHANGED notPlan

\* a history check that flags nothing
HistoryDone_NoneIncomplete ==
    /\ pPc = "history"
    /\ pBatch = NumBatches(WithCache(pStocks, pLocalDates), PROBE_BATCH_SIZE)
    /\ pIncomplete' = {}
    /\ pPc' = "plan"
    /\ UNCHANGED <<pProbeLog, pVariant, pStocks, pCache, pBatch, pLocalDates, pProbeFailed,
                   pHasHistory, pHistFailed, pSorted, pGroups>>
    /\ UNCHANGED notPlan

\* lines 464-466, 481: incomplete_stocks
HistoryDone ==
    /\ pPc = "history"
    /\ pBatch = NumBatches(WithCache(pStocks, pLocalDates), PROBE_BATCH_SIZE)
    /\ pIncomplete' = Range(WithCache(pStocks, pLocalDates)) \ pHasHistory
    /\ pPc' = "plan"
    /\ UNCHANGED <<pProbeLog, pVariant, pStocks, pCache, pBatch, pLocalDates, pProbeFailed,
                   pHasHistory, pHistFailed, pSorted, pGroups>>
    /\ UNCHANGED notPlan

\* lines 492-501: sort by gap and build one date group per instrument
Plan ==
    /\ pPc = "plan"
    /\ pSorted' = SortByGap(pStocks, pLocalDates, pIncomplete)
    /\ pGroups' =
          [i \in 1..Len(pStocks) |->
              LET s == SortByGap(pStocks, pLocalDates, pIncomplete)[i]
              IN  [st |-> StartBound(s, pLocalDates, pIncomplete),
                   et |-> NoDate,
                   stocks |-> <<s>>]]
    /\ pPc' = "planned"
    /\ UNCHANGED <<pProbeLog, pVariant, pStocks, pCache, pBatch, pLocalDates, pProbeFailed,
                   pHasHistory, pHistFailed, pIncomplete>>
    /\ UNCHANGED notPlan

\* an invocation on a list of instruments over some state of the local cache
InitPlan ==
    /\ pPc = "probe"
    /\ pVariant \in {"server", "cli"}
    /\ pProbeLog = <<>>
    /\ pStocks \in StockLists
    /\ pCache \in [Instruments -> CacheStates]
    /\ \A s \in Instruments : s \notin Range(pStocks) => pCache[s].last = NoDate
    /\ pBatch = 0
    /\ pLocalDates = [s \in Instruments |-> NoDate]
    /\ pProbeFailed = {}
    /\ pHasHistory = {}
    /\ pHistFailed = {}
    /\ pIncomplete = {}
    /\ pSorted = <<>>
    /\ pGroups = <<>>

NextPlan ==
    \/ ProbeBatch
    \/ ProbeDone
    \/ HistoryBatch
    \/ HistoryDone
    \/ Plan

\* an invocation of the orchestrator on its own
InitPlanOnly == InitGuard /\ ExecIdle /\ InitPlan /\ RunIdle /\ CliIdle /\ FinIdle /\ LoopIdle /\ OrcIdle /\ YearIdle /\ SingleIdle /\ BatchesIdle /\ TradeIdle

SpecPlan == InitPlanOnly /\ [][NextPlan]_vars

\* the orchestrator's planning steps are straight-line code: each one runs
FairSpecPlan ==
    /\ SpecPlan
    /\ WF_vars(ProbeBatch)
    /\ WF_vars(ProbeDone)

(***************************************************************************)
(* Properties of the K-line plan.                                          *)
(***************************************************************************)
\* s is a calendar date "YYYYMMDD"
IsDate(s) ==
    LET dt == ParseDate(s)
    IN  /\ dt.y >= 1
        /\ dt.m \in 1..12
        /\ dt.d \in 1..DaysInMonth(dt.y, dt.m)

\* the job (date group) planned for instrument s
JobsOf(s) == {i \in DOMAIN pGroups : pGroups[i].stocks = <<s>>}

\* C9 as stated: every instrument with a coverage date D in the probe
\* result is planned from D minus one day, a date before D.
C9_CoveredStartsBeforeD ==
    pPc = "planned" =>
        \A s \in Range(pStocks) :
            pLocalDates[s] # NoDate =>
                \A i \in JobsOf(s) :
                    /\ pGroups[i].st # NoDate
                    /\ pGroups[i].st < pLocalDates[s]

\* C9 (amended): every instrument with a coverage date D in the probe result
\* that is not flagged incomplete is planned from the calendar day before D:
\* a valid date, strictly before D, one day apart from it.
C9_CompleteCoveredStartsBeforeD ==
    pPc = "planned" =>
        \A s \in Range(pStocks) :
            (pLocalDates[s] # NoDate /\ s \notin pIncomplete) =>
                /\ JobsOf(s) # {}
                /\ \A i \in JobsOf(s) :
                      /\ IsDate(pGroups[i].st)
                      /\ pGroups[i].st < pLocalDates[s]
                      /\ DaysBetween(ParseDate(pLocalDates[s]),
                                     ParseDate(pGroups[i].st)) = SAFETY_OVERLAP_DAYS

\* A plan with a complete instrument covered up to the first day of March
\* of a leap year, planned from February 29.
C9_Witness ==
    /\ pPc = "planned"
    /\ \E i \in DOMAIN pGroups :
          /\ pLocalDates[pGroups[i].stocks[1]] = 20240301
          /\ pGroups[i].stocks[1] \notin pIncomplete
          /\ pGroups[i].st = 20240229

\* C10: every instrument absent from the probe result has a job with an
\* empty start bound and an empty end bound.
C10_AbsentPlannedInFull ==
    pPc = "planned" =>
        \A s \in Range(pStocks) :
            pLocalDates[s] = NoDate =>
                /\ JobsOf(s) # {}
                /\ \A i \in JobsOf(s) :
                      pGroups[i].st = NoDate /\ pGroups[i].et = NoDate

\* A plan with an absent instrument next to a covered one.
C10_Witness ==
    /\ pPc = "planned"
    /\ \E s, t \in Range(pStocks) :
          /\ pLocalDates[s] = NoDate
          /\ pLocalDates[t] # NoDate
          /\ \E i \in JobsOf(s) : pGroups[i].st = NoDate

\* the instruments of the job list, in order
JobStocks == [i \in DOMAIN pGroups |-> pGroups[i].stocks[1]]

\* 0 for an instrument with no coverage, 1 for one flagged incomplete, 2 for
\* the others
GapClass(s) ==
    IF pLocalDates[s] = NoDate THEN 0
    ELSE IF s \in pIncomplete THEN 1 ELSE 2

\* days since the last-available date of s
DaysSince(s) == DaysBetween(ParseDate(Today), ParseDate(pLocalDates[s]))

\* C11: the job list has exactly one single-instrument job per input
\* instrument and is ordered: instruments with no coverage first, then the
\* incomplete ones, then the others by non-increasing days since their last
\* date.
C11_JobsSortedByGap ==
    pPc = "planned" =>
        /\ Len(pGroups) = Len(pStocks)
        /\ \A i \in DOMAIN pGroups : Len(pGroups[i].stocks) = 1
        /\ \A s \in Instruments :
              Cardinality({i \in DOMAIN pGroups : JobStocks[i] = s})
                  = Cardinality({i \in DOMAIN pStocks : pStocks[i] = s})
        /\ \A i, j \in DOMAIN pGroups :
              i < j =>
                  /\ GapClass(JobStocks[i]) <= GapClass(JobStocks[j])
                  /\ (GapClass(JobStocks[i]) = 2 /\ GapClass(JobStocks[j]) = 2
                         => DaysSince(JobStocks[i]) >= DaysSince(JobStocks[j]))

\* A plan that reorders its input: an up-to-date instrument, an older
\* incomplete one and one with no coverage, given in that order.
C11_Witness ==
    /\ pPc = "planned"
    /\ Len(pGroups) = 3
    /\ GapClass(pStocks[1]) = 2
    /\ GapClass(pStocks[2]) = 1
    /\ GapClass(pStocks[3]) = 0
    /\ JobStocks = <<pStocks[3], pStocks[2], pStocks[1]>>
    /\ DaysSince(pStocks[2]) < DaysSince(pStocks[1])

\* C12: the instruments of a probe batch whose local read raised are absent
\* from the probe result and planned in full, the instruments of the other
\* batches have the entry their cache gives them, and the probe returns.
C12_FailedProbeBatchAbsent ==
    /\ [](\A s \in Range(pStocks) :
             /\ (s \in pProbeFailed =>
                    /\ pLocalDates[s] = NoDate
                    /\ pPc = "planned" =>
                           \A i \in JobsOf(s) : pGroups[i].st = NoDate)
             /\ ((s \notin pProbeFailed /\ pPc # "probe") =>
                    pLocalDates[s] = pCache[s].last))
    /\ (pProbeFailed # {} ~> pPc \notin {"probe"})

\* A returned probe in which one batch raised over cached instruments and
\* another batch gave a date.
C12_Witness ==
    /\ pPc \in {"history", "plan", "planned"}
    /\ \E s, t \in Range(pStocks) :
          /\ s \in pProbeFailed
          /\ pCache[s].last # NoDate
          /\ pLocalDates[s] = NoDate
          /\ t \notin pProbeFailed
          /\ pLocalDates[t] # NoDate

\* C13: in download_kline_incremental an instrument with a coverage date
\* whose sentinel-year probe gave no data, or whose sentinel-year batch
\* raised, is flagged incomplete and planned with an empty start bound.
C13_IncompleteReplannedInFull ==
    (pPc = "planned" /\ pVariant = "server") =>
        \A s \in Range(pStocks) :
            (pLocalDates[s] # NoDate /\ (~pCache[s].hist \/ s \in pHistFailed)) =>
                /\ s \in pIncomplete
                /\ JobsOf(s) # {}
                /\ \A i \in JobsOf(s) : pGroups[i].st = NoDate

\* A plan with an instrument flagged for want of sentinel-year data, one
\* flagged because its sentinel-year batch raised, and a complete one.
C13_Witness ==
    /\ pPc = "planned"
    /\ pVariant = "server"
    /\ \E s, t, u \in Range(pStocks) :
          /\ pLocalDates[s] # NoDate /\ ~pCache[s].hist /\ s \notin pHistFailed
          /\ \E i \in JobsOf(s) : pGroups[i].st = NoDate
          /\ pLocalDates[t] # NoDate /\ pCache[t].hist /\ t \in pHistFailed
          /\ \E i \in JobsOf(t) : pGroups[i].st = NoDate
          /\ u \notin pIncomplete
          /\ \E i \in JobsOf(u) : pGroups[i].st # NoDate

(***************************************************************************)
(* The retrying runner of the server orchestrators: the download loops of  *)
(* download_kline_incremental and download_financial_incremental with      *)
(* _run_kline_downloads and _run_financial_batches (server/downloader.py). *)
(* A job is one instrument of a date group (K-line) or one batch           *)
(* (financial); indices count from 1 here, from 0 in the source.           *)
(***************************************************************************)
\* largest max_retries argument
MaxRetries == 2

\* what one K-line job can end in: the statuses of download_single_kline,
\* or an exception raised by it
KlineOutcomes == {"ok", "timeout", "disconnected", "error", "exception"}
\* what one financial batch can end in: wait_future returns, raises
\* FutureTimeoutError, or the native call raises
FinancialOutcomes == {"ok", "timeout", "exception"}
Failures == {"timeout", "disconnected", "error", "exception"}

Outcomes(kind) == IF kind = "kline" THEN KlineOutcomes ELSE FinancialOutcomes

\* the date groups handed to the K-line loop, each a list of instruments
KlineJobLists ==
    {<<>>, << <<1>> >>, << <<1>>, <<1>> >>, << <<1, 1>> >>,
     << <<1, 1>>, <<1>> >>, << <<1, 1, 1>> >>}

\* make_batches(stocks, batch_size) for n instruments: the batch lengths
BatchSizes(n, size) ==
    LET lst == [i \in 1..n |-> i]
    IN  [k \in 1..NumBatches(lst, size) |-> Len(Batch(lst, k - 1, size))]

\* the batch lists of the financial loop; no list when need_download is empty
FinancialJobLists ==
    {<<>>} \cup {<<BatchSizes(n, 2)>> : n \in 1..5} \cup {<<BatchSizes(2, 1)>>}

JobIds(groups) ==
    UNION {{<<g, j>> : j \in DOMAIN groups[g]} : g \in DOMAIN groups}

\* sum(len(batches[i]) for i in idxs)
RECURSIVE SumSizes(_, _)
SumSizes(group, idxs) ==
    IF idxs = <<>> THEN 0
    ELSE group[Head(idxs)] + SumSizes(group, Tail(idxs))

\* list(range(len(group)))
AllIndices(group) == [i \in 1..Len(group) |-> i]

\* downloader.py 38-40, 454 (STOCK_TIMEOUT.get(period, 10)) and 559 (the
\* timeout argument of download_financial_incremental, 120 by default)
BaseTimeouts(kind) == IF kind = "kline" THEN {5, 10} ELSE {1, 2, 3, 120}

RECURSIVE Pow(_, _)
Pow(b, k) == IF k = 0 THEN 1 ELSE b * Pow(b, k - 1)

\* a retry timeout that grows by half the base per round
RetryTimeout_Linear(base, round) == (base * (2 + round)) \div 2

\* downloader.py 529 and 603: int(timeout * (1.5 ** retry_round)).  1.5 **
\* round is the float 3^round / 2^round and its product with the integer
\* timeout is exact at these sizes, so int() gives the integer part of
\* timeout * 3^round / 2^round.
RetryTimeout(base, round) == (base * Pow(3, round)) \div Pow(2, round)

\* the outcomes a job can have on its next attempt: any, or those of the
\* double that fails on its first two attempts and succeeds afterwards
Allowed(kind, scripted, attempts) ==
    IF scripted
    THEN (IF attempts < 2 THEN Outcomes(kind) \cap Failures ELSE {"ok"})
    ELSE Outcomes(kind)

\* a runner that lets the exception of a job escape
RunJob_ExceptionEscapes ==
    /\ rPc = "job"
    /\ rSeq < Len(rIndices)
    /\ LET idx == rIndices[rSeq + 1]
           id == <<rGroup, idx>>
           n == IF rKind = "kline" THEN 1 ELSE rGroups[rGroup][idx]
       IN  \E out \in Allowed(rKind, rScripted, rAttempts[id]) :
              /\ resOk' = IF out = "ok" THEN resOk + n ELSE resOk
              /\ resTo' = IF out = "timeout" THEN resTo + 1 ELSE resTo
              /\ resFail' = IF out \in Failures THEN resFail + n ELSE resFail
              /\ resFailed' = IF out \in Failures /\ out # "exception"
                              THEN Append(resFailed, idx) ELSE resFailed
              /\ rPc' = IF out = "exception" THEN "raised" ELSE "job"
              /\ rAttempts' = [rAttempts EXCEPT ![id] = @ + 1]
              /\ rStatus' = [rStatus EXCEPT ![id] = out]
              /\ rLastRound' = [rLastRound EXCEPT ![id] = rRound]
    /\ rSeq' = rSeq + 1
    /\ UNCHANGED <<rKind, rGroups, rCached, rMaxRetries, rScripted, rGroup, rRound,
                   rIndices, rOk, rFailed, totalOk, totalFail, totalTo, rBase,
                   rTimeout, rPrevTimeout>>
    /\ UNCHANGED notRun

\* a runner that puts a failed index in front of its failed list
RunJob_PrependsFailed ==
    /\ rPc = "job"
    /\ rSeq < Len(rIndices)
    /\ LET idx == rIndices[rSeq + 1]
           id == <<rGroup, idx>>
           n == IF rKind = "kline" THEN 1 ELSE rGroups[rGroup][idx]
       IN  \E out \in Allowed(rKind, rScripted, rAttempts[id]) :
              /\ resOk' = IF out = "ok" THEN resOk + n ELSE resOk
              /\ resTo' = IF out = "timeout" THEN resTo + 1 ELSE resTo
              /\ resFail' = IF out \in Failures THEN resFail + n ELSE resFail
              /\ resFailed' = IF out \in Failures
                              THEN <<idx>> \o resFailed ELSE resFailed
              /\ rPc' = rPc
              /\ rAttempts' = [rAttempts EXCEPT ![id] = @ + 1]
              /\ rStatus' = [rStatus EXCEPT ![id] = out]
              /\ rLastRound' = [rLastRound EXCEPT ![id] = rRound]
    /\ rSeq' = rSeq + 1
    /\ UNCHANGED <<rKind, rGroups, rCached, rMaxRetries, rScripted, rGroup, rRound,
                   rIndices, rOk, rFailed, totalOk, totalFail, totalTo, rBase,
                   rTimeout, rPrevTimeout>>
    /\ UNCHANGED notRun

\* downloader.py 411-437 and 643-672: one iteration of the runner's loop
RunJob ==
    /\ rPc = "job"
    /\ rSeq < Len(rIndices)
    /\ LET idx == rIndices[rSeq + 1]
           id == <<rGroup, idx>>
           n == IF rKind = "kline" THEN 1 ELSE rGroups[rGroup][idx]
       IN  \E out \in Allowed(rKind, rScripted, rAttempts[id]) :
              /\ resOk' = IF out = "ok" THEN resOk + n ELSE resOk
              /\ resTo' = IF out = "timeout" THEN resTo + 1 ELSE resTo
              /\ resFail' = IF out \in Failures THEN resFail + n ELSE resFail
              /\ resFailed' = IF out \in Failures
                              THEN Append(resFailed, idx) ELSE resFailed
              /\ rAttempts' = [rAttempts EXCEPT ![id] = @ + 1]
              /\ rStatus' = [rStatus EXCEPT ![id] = out]
              /\ rLastRound' = [rLastRound EXCEPT ![id] = rRound]
    /\ rSeq' = rSeq + 1
    /\ UNCHANGED <<rPc, rKind, rGroups, rCached, rMaxRetries, rScripted, rGroup,
                   rRound, rIndices, rOk, rFailed, totalOk, totalFail, totalTo,
                   rBase, rTimeout, rPrevTimeout>>
    /\ UNCHANGED notRun

\* a runner that leaves its loop at the first failed job
RunRoundReturn_AtFirstFailure ==
    /\ rPc = "job"
    /\ rSeq = Len(rIndices) \/ resFailed # <<>>
    /\ rOk' = IF rRound = 0 THEN resOk ELSE rOk + resOk
    /\ rFailed' = resFailed
    /\ rPc' = "loop"
    /\ UNCHANGED <<rKind, rGroups, rCached, rMaxRetries, rScripted, rGroup, rRound,
                   rIndices, rSeq, resOk, resFail, resTo, resFailed,
                   totalOk, totalFail, totalTo, rAttempts, rStatus, rLastRound,
                   rBase, rTimeout, rPrevTimeout>>
    /\ UNCHANGED notRun

\* downloader.py 438, 524-525, 535-536 and 674, 597, 612-613: the runner
\* returns its counts to the orchestrator
RunRoundReturn ==
    /\ rPc = "job"
    /\ rSeq = Len(rIndices)
    /\ rOk' = IF rRound = 0 THEN resOk ELSE rOk + resOk
    /\ rFailed' = resFailed
    /\ rPc' = "loop"
    /\ UNCHANGED <<rKind, rGroups, rCached, rMaxRetries, rScripted, rGroup, rRound,
                   rIndices, rSeq, resOk, resFail, resTo, resFailed,
                   totalOk, totalFail, totalTo, rAttempts, rStatus, rLastRound,
                   rBase, rTimeout, rPrevTimeout>>
    /\ UNCHANGED notRun

\* the first round of date group g
StartGroup(g) ==
    /\ rGroup' = g
    /\ rRound' = 0
    /\ rIndices' = AllIndices(rGroups[g])
    /\ rSeq' = 0
    /\ resOk' = 0
    /\ resFail' = 0
    /\ resTo' = 0
    /\ resFailed' = <<>>
    /\ rTimeout' = rBase
    /\ rPrevTimeout' = 0
    /\ rPc' = "job"

\* downloader.py 516-521 and 586-597: the orchestrator enters its download
\* loop; the financial one returns at once when need_download is empty
RunStart ==
    /\ rPc = "start"
    /\ IF rGroups = <<>>
       THEN /\ rPc' = "done"
            /\ totalOk' = IF rKind = "financial" THEN rCached ELSE 0
            /\ UNCHANGED <<rGroup, rRound, rIndices, rSeq, resOk, resFail, resTo,
                           resFailed, rTimeout, rPrevTimeout>>
       ELSE /\ StartGroup(1)
            /\ UNCHANGED totalOk
    /\ UNCHANGED <<rKind, rGroups, rCached, rMaxRetries, rScripted, rOk, rFailed,
                   totalFail, totalTo, rAttempts, rStatus, rLastRound, rBase>>
    /\ UNCHANGED notRun

\* final counts that take a failed batch for one failed instrument
Finish_CountsFailedBatches(failed) ==
    LET group == rGroups[rGroup]
    IN  IF rKind = "kline"
        THEN /\ rOk' = Len(group) - Len(failed)
             /\ totalOk' = totalOk + (Len(group) - Len(failed))
             /\ totalFail' = totalFail + Len(failed)
             /\ totalTo' = totalTo + Len(failed)
        ELSE /\ rOk' = SumSizes(group, AllIndices(group))
                          - SumSizes(group, failed) + rCached
             /\ totalOk' = SumSizes(group, AllIndices(group))
                              - SumSizes(group, failed) + rCached
             /\ totalFail' = Len(failed)
             /\ totalTo' = Len(failed)

\* the final counts of a group (K-line: 538-542) or of the run (financial:
\* 615-619)
Finish(failed) ==
    LET group == rGroups[rGroup]
    IN  IF rKind = "kline"
        THEN /\ rOk' = Len(group) - Len(failed)
             /\ totalOk' = totalOk + (Len(group) - Len(failed))
             /\ totalFail' = totalFail + Len(failed)
             /\ totalTo' = totalTo + Len(failed)
        ELSE /\ rOk' = SumSizes(group, AllIndices(group))
                          - SumSizes(group, failed) + rCached
             /\ totalOk' = SumSizes(group, AllIndices(group))
                              - SumSizes(group, failed) + rCached
             /\ totalFail' = SumSizes(group, failed)
             /\ totalTo' = Len(failed)

\* a retry loop that gives up after one retry round
RunRetryOrFinish_OneRetry ==
    /\ rPc = "loop"
    /\ IF rRound < 1 /\ rRound < rMaxRetries /\ rFailed # <<>>
       THEN /\ rRound' = rRound + 1
            /\ rIndices' = rFailed
            /\ rSeq' = 0
            /\ resOk' = 0
            /\ resFail' = 0
            /\ resTo' = 0
            /\ resFailed' = <<>>
            /\ rTimeout' = RetryTimeout(rBase, rRound + 1)
            /\ rPrevTimeout' = rTimeout
            /\ rPc' = "job"
            /\ UNCHANGED <<rGroup, rOk, totalOk, totalFail, totalTo>>
       ELSE /\ Finish(rFailed)
            /\ IF rGroup < Len(rGroups)
               THEN StartGroup(rGroup + 1)
               ELSE /\ rPc' = "done"
                    /\ UNCHANGED <<rGroup, rRound, rIndices, rSeq, resOk, resFail,
                                   resTo, resFailed, rTimeout, rPrevTimeout>>
    /\ UNCHANGED <<rKind, rGroups, rCached, rMaxRetries, rScripted, rFailed,
                   rAttempts, rStatus, rLastRound, rBase>>
    /\ UNCHANGED notRun

\* a retry loop that runs every job of the group again
RunRetryOrFinish_RetriesAll ==
    /\ rPc = "loop"
    /\ IF rRound < rMaxRetries /\ rFailed # <<>>
       THEN /\ rRound' = rRound + 1
            /\ rIndices' = AllIndices(rGroups[rGroup])
            /\ rSeq' = 0
            /\ resOk' = 0
            /\ resFail' = 0
            /\ resTo' = 0
            /\ resFailed' = <<>>
            /\ rTimeout' = RetryTimeout(rBase, rRound + 1)
            /\ rPrevTimeout' = rTimeout
            /\ rPc' = "job"
            /\ UNCHANGED <<rGroup, rOk, totalOk, totalFail, totalTo>>
       ELSE /\ Finish(rFailed)
            /\ IF rGroup < Len(rGroups)
               THEN StartGroup(rGroup + 1)
               ELSE /\ rPc' = "done"
                    /\ UNCHANGED <<rGroup, rRound, rIndices, rSeq, resOk, resFail,
                                   resTo, resFailed, rTimeout, rPrevTimeout>>
    /\ UNCHANGED <<rKind, rGroups, rCached, rMaxRetries, rScripted, rFailed,
                   rAttempts, rStatus, rLastRound, rBase>>
    /\ UNCHANGED notRun

\* downloader.py 526-542 and 600-622: the test of the retry loop; a retry
\* round over the failed jobs, or the final counts and the next date group
RunRetryOrFinish ==
    /\ rPc = "loop"
    /\ IF rRound < rMaxRetries /\ rFailed # <<>>
       THEN /\ rRound' = rRound + 1
            /\ rIndices' = rFailed
            /\ rSeq' = 0
            /\ resOk' = 0
            /\ resFail' = 0
            /\ resTo' = 0
            /\ resFailed' = <<>>
            /\ rTimeout' = RetryTimeout(rBase, rRound + 1)
            /\ rPrevTimeout' = rTimeout
            /\ rPc' = "job"
            /\ UNCHANGED <<rGroup, rOk, totalOk, totalFail, totalTo>>
       ELSE /\ Finish(rFailed)
            /\ IF rGroup < Len(rGroups)
               THEN StartGroup(rGroup + 1)
               ELSE /\ rPc' = "done"
                    /\ UNCHANGED <<rGroup, rRound, rIndices, rSeq, resOk, resFail,
                                   resTo, resFailed, rTimeout, rPrevTimeout>>
    /\ UNCHANGED <<rKind, rGroups, rCached, rMaxRetries, rScripted, rFailed,
                   rAttempts, rStatus, rLastRound, rBase>>
    /\ UNCHANGED notRun

\* an invocation of an orchestrator's download loop on some job lists
InitRun ==
    /\ rPc = "start"
    /\ rKind \in {"kline", "financial"}
    /\ rGroups \in (IF rKind = "kline" THEN KlineJobLists ELSE FinancialJobLists)
    /\ rCached \in (IF rKind = "kline" THEN {0} ELSE {0, 1})
    /\ rMaxRetries \in 0..MaxRetries
    /\ rScripted \in BOOLEAN
    /\ rGroup = 0
    /\ rRound = 0
    /\ rIndices = <<>>
    /\ rSeq = 0
    /\ resOk = 0
    /\ resFail = 0
    /\ resTo = 0
    /\ resFailed = <<>>
    /\ rOk = 0
    /\ rFailed = <<>>
    /\ totalOk = 0
    /\ totalFail = 0
    /\ totalTo = 0
    /\ rAttempts = [id \in JobIds(rGroups) |-> 0]
    /\ rStatus = [id \in JobIds(rGroups) |-> "none"]
    /\ rLastRound = [id \in JobIds(rGroups) |-> -1]
    /\ rBase \in BaseTimeouts(rKind)
    /\ rTimeout = 0
    /\ rPrevTimeout = 0

NextRun ==
    \/ RunStart
    \/ RunJob
    \/ RunRoundReturn
    \/ RunRetryOrFinish

\* an invocation of an orchestrator's download loop on its own
InitRunOnly == InitGuard /\ ExecIdle /\ PlanIdle /\ InitRun /\ CliIdle /\ FinIdle /\ LoopIdle /\ OrcIdle /\ YearIdle /\ SingleIdle /\ BatchesIdle /\ TradeIdle

SpecRun == InitRunOnly /\ [][NextRun]_vars

(***************************************************************************)
(* Properties of the retrying runner.                                      *)
(***************************************************************************)
\* the jobs of the date group being downloaded
GroupJobs == {id \in DOMAIN rStatus : id[1] = rGroup}

\* the jobs whose last attempt failed
FailedJobs == {id \in DOMAIN rStatus : rStatus[id] \in Failures}

\* number of instruments of a set of jobs
RECURSIVE InstrumentsOf(_)
InstrumentsOf(ids) ==
    IF ids = {} THEN 0
    ELSE LET id == CHOOSE x \in ids : TRUE
         IN  rGroups[id[1]][id[2]] + InstrumentsOf(ids \ {id})

\* number of input instruments of the orchestrator
TotalInstruments == InstrumentsOf(DOMAIN rStatus) + rCached

\* C14: no job is attempted more than 1 + max_retries times; an attempt in
\* a retry round is of a job that failed in the round before, and a retry
\* round leaves none of them out; a retry round is started only while fewer
\* than max_retries have run and some job of the group is failed.
C14_RetriesOnlyFailed ==
    /\ [](/\ \A id \in DOMAIN rAttempts : rAttempts[id] <= 1 + rMaxRetries
          /\ rRound <= rMaxRetries
          /\ (rPc = "loop" =>
                 \A id \in GroupJobs \cap FailedJobs : rLastRound[id] = rRound))
    /\ [][/\ \A id \in DOMAIN rAttempts :
                rAttempts'[id] # rAttempts[id] =>
                    /\ rAttempts'[id] = rAttempts[id] + 1
                    /\ rStatus[id] # "ok"
                    /\ rLastRound[id] = rRound - 1
                    /\ rRound = 0 \/ rStatus[id] \in Failures
          /\ rRound' > rRound =>
                /\ rRound < rMaxRetries
                /\ GroupJobs \cap FailedJobs # {}]_vars

\* A finished run in which one job of a group was attempted three times
\* while another job of the same group succeeded at once.
C14_Witness ==
    /\ rPc = "done"
    /\ rMaxRetries = 2
    /\ \E a, b \in DOMAIN rAttempts :
          /\ a[1] = b[1]
          /\ rAttempts[a] = 3
          /\ rAttempts[b] = 1
          /\ rStatus[b] = "ok"

\* C15: with jobs that fail on the first attempt and in retry round 1 and
\* succeed in retry round 2, an invocation with max_retries >= 2 ends with
\* fail = 0 and ok = the number of input instruments.
C15_FailTwiceThenSucceed ==
    (rPc = "done" /\ rScripted /\ rMaxRetries >= 2) =>
        /\ totalFail = 0
        /\ totalOk = TotalInstruments

\* A finished run of the double with several jobs, each attempted three
\* times.
C15_Witness ==
    /\ rPc = "done"
    /\ rScripted
    /\ rMaxRetries >= 2
    /\ Cardinality(DOMAIN rAttempts) >= 2
    /\ \A id \in DOMAIN rAttempts : rAttempts[id] = 3 /\ rStatus[id] = "ok"
    /\ totalOk = TotalInstruments

\* C16 as stated: the returned counts are ok = total - |final failed set|,
\* fail = |final failed set| and timeout = the number of jobs whose final
\* status is timeout.
C16_FinalCounts ==
    rPc = "done" =>
        /\ totalOk = TotalInstruments - InstrumentsOf(FailedJobs)
        /\ totalFail = InstrumentsOf(FailedJobs)
        /\ totalTo = Cardinality({id \in DOMAIN rStatus : rStatus[id] = "timeout"})

\* C17: no exception of a job leaves the runner, and when a round returns
\* every job of its list has been attempted in it, the failed list holds
\* exactly the jobs that failed and the ok count the instruments of the
\* jobs that succeeded.
C17_FailureNeverAborts ==
    /\ rPc # "raised"
    /\ (rPc = "loop" =>
           LET ids == {<<rGroup, rIndices[k]>> : k \in DOMAIN rIndices}
           IN  /\ \A id \in ids : rLastRound[id] = rRound
               /\ {<<rGroup, resFailed[k]>> : k \in DOMAIN resFailed}
                      = ids \cap FailedJobs
               /\ Len(resFailed) = Cardinality(ids \cap FailedJobs)
               /\ resOk = InstrumentsOf(ids \ FailedJobs)
               /\ resFail = InstrumentsOf(ids \cap FailedJobs))

\* A returned K-line round whose first job raised, whose second job was
\* disconnected and whose third job succeeded.
C17_Witness ==
    /\ rPc = "loop"
    /\ rKind = "kline"
    /\ rIndices = <<1, 2, 3>>
    /\ rStatus[<<rGroup, 1>>] = "exception"
    /\ rStatus[<<rGroup, 2>>] = "disconnected"
    /\ rStatus[<<rGroup, 3>>] = "ok"
    /\ resFailed = <<1, 2>>
    /\ resOk = 1

(***************************************************************************)
(* One run of the CLI script: main(), download_kline_v2 (modes B and C),   *)
(* download_financial and the two batch runners, with Ctrl+C               *)
(* (scripts/download_all.py).  Indices count from 1 here.                  *)
(***************************************************************************)
\* number of times the user presses Ctrl+C during a run
MaxInterrupts == 1

\* what _download_single_kline returns, or that it raises an exception
CliKlineOutcomes ==
    {"ok", "cached", "timeout", "disconnected", "error", "exception"}
CliSuccesses == {"ok", "cached"}

CliOutcomes(phase) ==
    IF phase = "kline" THEN CliKlineOutcomes ELSE FinancialOutcomes

\* len(stocks) and len(periods) of a run
CliStockCounts == {1, 2}
CliPeriodCounts == {1, 2}

\* the keys of state.tasks: f"kline:{period}" and "financial"
CliTaskKeys ==
    {<<"kline", p>> : p \in 1..(CHOOSE m \in CliPeriodCounts :
                                    \A n \in CliPeriodCounts : n <= m)}
        \cup {<<"financial", 0>>}

\* state.tasks.get(task_key) of a key that has no entry
NoTask == <<>>
\* the entry an earlier run left for a key: it never succeeded, or it last
\* succeeded the day before
PrevEntries ==
    {NoTask}
        \cup [last_success_date : {NoDate, 20240301}, last_run : {"before"},
              stock_count : {1}, ok : {0}, fail : {1}]
\* the state files a run can start from (none: every key without entry)
PrevTasks == {[key \in CliTaskKeys |-> e] : e \in PrevEntries}

\* the key of the task the run is in
RunningKey ==
    IF cPhase = "kline" THEN <<"kline", cPeriod>> ELSE <<"financial", 0>>

cArgs == <<cFull, cSkipKline, cSkipFin, cNumPeriods, cNumStocks, cMaxRetries,
           cDelay, cNeed, cPrevTasks>>
cRoundVars == <<cRound, cIndices, cSeq, cOkCount, cFailCount, cToCount, cFailedIdx,
                cJobStatus>>
cTotals == <<cTotalOk, cTotalFail, cTotalTo>>
cGhost == <<cIntJob, cIntWhere, cUnfinished>>
cEnd == <<cSaved, cSummary, cTasks>>

\* a call of a batch runner on the index list indices; the first round of a
\* group has every job of the group, none of them attempted yet
EnterRound(round, indices) ==
    /\ cRound' = round
    /\ cJobStatus' = IF round = 0 THEN [i \in 1..Len(indices) |-> "none"]
                                 ELSE cJobStatus
    /\ cIndices' = indices
    /\ cSeq' = 0
    /\ cOkCount' = 0
    /\ cFailCount' = 0
    /\ cToCount' = 0
    /\ cFailedIdx' = <<>>

\* download_all.py 762-785, 813-821: the loop body of download_kline_v2 for
\* period p: mode B has one group of all instruments, mode C probes first
EnterPeriod(p) ==
    /\ cPhase' = "kline"
    /\ cPeriod' = p
    /\ cTotalOk' = 0
    /\ cTotalFail' = 0
    /\ cTotalTo' = 0
    /\ cInterrupted' = FALSE
    /\ IF cFull
       THEN /\ cGroups' = <<[i \in 1..cNumStocks |-> 1]>>
            /\ cGroup' = 1
            /\ EnterRound(0, [i \in 1..cNumStocks |-> i])
            /\ cPc' = "job"
       ELSE /\ cGroups' = <<>>
            /\ cGroup' = 0
            /\ EnterRound(0, <<>>)
            /\ cPc' = "probe"

\* download_all.py 1093-1101, 507-544: main goes on to download_financial,
\* which probes the cache unless full is set
AfterKline ==
    IF cSkipFin
    THEN /\ cPc' = "update"
         /\ UNCHANGED <<cPhase, cGroups, cGroup, cRoundVars, cInterrupted>>
    ELSE /\ cPhase' = "financial"
         /\ cInterrupted' = FALSE
         /\ IF cFull
            THEN /\ cGroups' = <<BatchSizes(cNumStocks, 1)>>
                 /\ cGroup' = 1
                 /\ EnterRound(0, [i \in 1..cNumStocks |-> i])
                 /\ cPc' = "job"
            ELSE /\ cGroups' = <<>>
                 /\ cGroup' = 0
                 /\ EnterRound(0, <<>>)
                 /\ cPc' = "fprobe"

\* download_all.py 1081-1091: main enters its try block
CliStart ==
    /\ cPc = "start"
    /\ IF cSkipKline
       THEN AfterKline /\ UNCHANGED <<cPeriod, cTotals>>
       ELSE EnterPeriod(1)
    /\ UNCHANGED <<cArgs, cOk, cFailed, cResults, cFinResult, gInterrupted,
                   cInterrupts, cGhost, cEnd>>
    /\ UNCHANGED notCli

\* download_all.py 785-803: the probe returned; one date group per instrument
CliProbeDone ==
    /\ cPc = "probe"
    /\ cGroups' = [i \in 1..cNumStocks |-> <<1>>]
    /\ cGroup' = 1
    /\ EnterRound(0, <<1>>)
    /\ cPc' = "job"
    /\ UNCHANGED <<cArgs, cPhase, cPeriod, cOk, cFailed, cInterrupted, cTotals,
                   cResults, cFinResult, gInterrupted, cInterrupts, cGhost, cEnd>>
    /\ UNCHANGED notCli

\* download_all.py 511-544: the financial probe returned; nothing to
\* download, or the batches of need_download
CliFinProbeDone ==
    /\ cPc = "fprobe"
    /\ IF cNeed = 0
       THEN /\ cFinResult' = [ok |-> cNumStocks, fail |-> 0, timeout |-> 0]
            /\ cPc' = "update"
            /\ UNCHANGED <<cGroups, cGroup, cRoundVars>>
       ELSE /\ cGroups' = <<BatchSizes(cNeed, 1)>>
            /\ cGroup' = 1
            /\ EnterRound(0, [i \in 1..cNeed |-> i])
            /\ cPc' = "job"
            /\ UNCHANGED cFinResult
    /\ UNCHANGED <<cArgs, cPhase, cPeriod, cOk, cFailed, cInterrupted, cTotals,
                   cResults, gInterrupted, cInterrupts, cGhost, cEnd>>
    /\ UNCHANGED notCli

\* a KeyboardInterrupt that no batch runner catches: it unwinds to the
\* except clause of main (1104-1106); the results of download_kline_v2 are
\* lost with its frame
Propagates(where) ==
    /\ cInterrupts < MaxInterrupts
    /\ cInterrupts' = cInterrupts + 1
    /\ cIntWhere' = IF cIntWhere = "none" THEN where ELSE cIntWhere
    /\ cResults' = IF cPhase = "kline" THEN <<>> ELSE cResults
    /\ cUnfinished' = cUnfinished \cup {RunningKey}
    /\ cPc' = "caught"
    /\ UNCHANGED <<cArgs, cPhase, cPeriod, cGroups, cGroup, cRoundVars, cOk, cFailed,
                   cInterrupted, cTotals, cFinResult, gInterrupted, cIntJob, cEnd>>
    /\ UNCHANGED notCli

\* Ctrl+C during probe_local_dates or probe_financial_cache, whose except
\* clauses catch Exception only (603-614, 461-484)
CliProbeInterrupted ==
    /\ cPc \in {"probe", "fprobe"}
    /\ Propagates("probe")

\* Ctrl+C in a batch runner's iteration outside its try statement: the
\* progress-bar calls (290-296, 389) and the handlers' own output
CliBarInterrupted ==
    /\ cPc = "job"
    /\ cSeq < Len(cIndices)
    /\ Propagates("bar")

\* Ctrl+C during the time.sleep(delay) between two financial batches (428-429)
CliDelayInterrupted ==
    /\ cPc = "delay"
    /\ Propagates("delay")

\* download_all.py 289-334 and 385-429: one iteration of a batch runner
\* whose job ends without an interrupt
CliJob ==
    /\ cPc = "job"
    /\ cSeq < Len(cIndices)
    /\ LET idx == cIndices[cSeq + 1]
           n == IF cPhase = "kline" THEN 1 ELSE cGroups[cGroup][idx]
       IN  \E out \in CliOutcomes(cPhase) :
              /\ cOkCount' = IF out \in CliSuccesses THEN cOkCount + n ELSE cOkCount
              /\ cToCount' = IF out = "timeout" THEN cToCount + 1 ELSE cToCount
              /\ cFailCount' = IF out \notin CliSuccesses
                               THEN cFailCount + n ELSE cFailCount
              /\ cFailedIdx' = IF out \notin CliSuccesses
                               THEN Append(cFailedIdx, idx) ELSE cFailedIdx
              /\ cJobStatus' = [cJobStatus EXCEPT ![idx] =
                                    IF out \in CliSuccesses THEN "ok" ELSE "failed"]
    /\ cSeq' = cSeq + 1
    /\ cPc' = IF cPhase = "financial" /\ cDelay /\ cSeq < Len(cIndices) - 1
              THEN "delay" ELSE "job"
    /\ UNCHANGED <<cArgs, cPhase, cPeriod, cGroups, cGroup, cRound, cIndices, cOk,
                   cFailed, cInterrupted, cTotals, cResults, cFinResult,
                   gInterrupted, cInterrupts, cGhost, cEnd>>
    /\ UNCHANGED notCli

\* download_all.py 428-429: the inter-batch delay ends
CliDelayDone ==
    /\ cPc = "delay"
    /\ cPc' = "job"
    /\ UNCHANGED <<cArgs, cPhase, cPeriod, cGroups, cGroup, cRoundVars, cOk, cFailed,
                   cInterrupted, cTotals, cResults, cFinResult, gInterrupted,
                   cInterrupts, cGhost, cEnd>>
    /\ UNCHANGED notCli

\* download_all.py 322-327 and 409-417, with 833-836, 853-860 and 542-544,
\* 563-567: Ctrl+C inside the try statement of the running job; the runner
\* sets _interrupted and returns its counts with interrupted = True
CliJobInterrupted ==
    /\ cPc = "job"
    /\ cSeq < Len(cIndices)
    /\ cInterrupts < MaxInterrupts
    /\ cInterrupts' = cInterrupts + 1
    /\ gInterrupted' = TRUE
    /\ cInterrupted' = TRUE
    /\ cOk' = IF cRound = 0 THEN cOkCount ELSE cOk + cOkCount
    /\ cFailed' = cFailedIdx
    /\ cPc' = "loop"
    /\ cIntWhere' = IF cIntWhere = "none" THEN "job" ELSE cIntWhere
    /\ cIntJob' = IF cPhase = "kline" /\ cIntJob = <<>>
                  THEN [k |-> cSeq + 1, n |-> Len(cIndices), ok |-> cOkCount]
                  ELSE cIntJob
    /\ cUnfinished' = cUnfinished \cup {RunningKey}
    /\ UNCHANGED <<cArgs, cPhase, cPeriod, cGroups, cGroup, cRoundVars, cTotals,
                   cResults, cFinResult, cEnd>>
    /\ UNCHANGED notCli

\* download_all.py 336 and 433 with 833-836, 853-860: the runner has gone
\* through its list and returns with interrupted = False
CliRoundReturn ==
    /\ cPc = "job"
    /\ cSeq = Len(cIndices)
    /\ cInterrupted' = FALSE
    /\ cOk' = IF cRound = 0 THEN cOkCount ELSE cOk + cOkCount
    /\ cFailed' = cFailedIdx
    /\ cPc' = "loop"
    /\ UNCHANGED <<cArgs, cPhase, cPeriod, cGroups, cGroup, cRoundVars, cTotals,
                   cResults, cFinResult, gInterrupted, cInterrupts, cGhost, cEnd>>
    /\ UNCHANGED notCli

\* the final counts of a date group (862-866) or of download_financial
\* (570-575)
CliFinish ==
    LET group == cGroups[cGroup]
        all == [i \in 1..Len(group) |-> i]
    IN  /\ cUnfinished' =
              IF \E i \in DOMAIN cJobStatus : cJobStatus[i] # "ok"
              THEN cUnfinished \cup {RunningKey} ELSE cUnfinished
        /\ IF cPhase = "kline"
           THEN LET ok == IF ~cInterrupted THEN Len(group) - Len(cFailed) ELSE cOk
                IN  /\ cOk' = ok
                    /\ cTotalOk' = cTotalOk + ok
                    /\ cTotalFail' = cTotalFail + Len(cFailed)
                    /\ cTotalTo' = cTotalTo + Len(cFailed)
                    /\ UNCHANGED cFinResult
           ELSE LET n_cached == cNumStocks - SumSizes(group, all)
                    ffs == SumSizes(group, cFailed)
                    ok == (IF ~cInterrupted THEN SumSizes(group, all) - ffs ELSE cOk)
                              + n_cached
                IN  /\ cOk' = ok
                    /\ cFinResult' = [ok |-> ok, fail |-> ffs, timeout |-> Len(cFailed)]
                    /\ UNCHANGED cTotals

\* a retry loop that does not look at the interrupted flag
CliRetryOrFinish_IgnoresInterrupt ==
    /\ cPc = "loop"
    /\ IF cRound < cMaxRetries /\ cFailed # <<>>
       THEN /\ EnterRound(cRound + 1, cFailed)
            /\ cPc' = "job"
            /\ UNCHANGED <<cGroup, cOk, cTotals, cFinResult, cUnfinished>>
       ELSE /\ CliFinish
            /\ IF cPhase = "kline" /\ cGroup < Len(cGroups)
               THEN /\ cGroup' = cGroup + 1
                    /\ EnterRound(0, [i \in 1..Len(cGroups[cGroup + 1]) |-> i])
                    /\ cPc' = "job"
               ELSE /\ cPc' = IF cPhase = "kline" THEN "periodEnd" ELSE "update"
                    /\ UNCHANGED <<cGroup, cRoundVars>>
    /\ UNCHANGED <<cArgs, cPhase, cPeriod, cGroups, cFailed, cInterrupted, cResults,
                   gInterrupted, cInterrupts, cIntJob, cIntWhere, cEnd>>
    /\ UNCHANGED notCli

\* download_all.py 839-875 and 547-575: the test of the retry loop; a retry
\* round over the failed jobs, or the final counts and then the next date
\* group, the end of the period, or the return of download_financial
CliRetryOrFinish ==
    /\ cPc = "loop"
    /\ IF cRound < cMaxRetries /\ cFailed # <<>> /\ ~cInterrupted
       THEN /\ EnterRound(cRound + 1, cFailed)
            /\ cPc' = "job"
            /\ UNCHANGED <<cGroup, cOk, cTotals, cFinResult, cUnfinished>>
       ELSE /\ CliFinish
            /\ IF cPhase = "kline" /\ ~cInterrupted /\ cGroup < Len(cGroups)
               THEN /\ cGroup' = cGroup + 1
                    /\ EnterRound(0, [i \in 1..Len(cGroups[cGroup + 1]) |-> i])
                    /\ cPc' = "job"
               ELSE /\ cPc' = IF cPhase = "kline" THEN "periodEnd" ELSE "update"
                    /\ UNCHANGED <<cGroup, cRoundVars>>
    /\ UNCHANGED <<cArgs, cPhase, cPeriod, cGroups, cFailed, cInterrupted, cResults,
                   gInterrupted, cInterrupts, cIntJob, cIntWhere, cEnd>>
    /\ UNCHANGED notCli

\* download_all.py 877-889 and 1093-1101: the result of the period is
\* stored; the next period starts, or download_kline_v2 returns and main
\* goes on
CliPeriodEnd ==
    /\ cPc = "periodEnd"
    /\ cResults' = Append(cResults, [ok |-> cTotalOk, fail |-> cTotalFail,
                                     timeout |-> cTotalTo,
                                     date_groups |-> Len(cGroups)])
    /\ IF ~cInterrupted /\ cPeriod < cNumPeriods
       THEN EnterPeriod(cPeriod + 1)
       ELSE AfterKline /\ UNCHANGED <<cPeriod, cTotals>>
    /\ UNCHANGED <<cArgs, cOk, cFailed, cFinResult, gInterrupted, cInterrupts,
                   cGhost, cEnd>>
    /\ UNCHANGED notCli

\* download_all.py 1104-1106: except KeyboardInterrupt in main
CliCaught ==
    /\ cPc = "caught"
    /\ cPc' = "update"
    /\ UNCHANGED <<cArgs, cPhase, cPeriod, cGroups, cGroup, cRoundVars, cOk, cFailed,
                   cInterrupted, cTotals, cResults, cFinResult, gInterrupted,
                   cInterrupts, cGhost, cEnd>>
    /\ UNCHANGED notCli

\* download_all.py 1112-1124 and 1125-1137: the TaskState written for a task
\* key whose old entry is old (NoTask: none) and whose counts are counts
NewTaskState_KeepsDate(old, counts) ==
    [last_success_date |->
         IF old # NoTask THEN old.last_success_date ELSE NoDate,
     last_run |-> "now",
     stock_count |-> cNumStocks,
     ok |-> counts.ok,
     fail |-> counts.fail]

NewTaskState(old, counts) ==
    [last_success_date |->
         IF counts.fail = 0 THEN Today
         ELSE IF old # NoTask THEN old.last_success_date ELSE NoDate,
     last_run |-> "now",
     stock_count |-> cNumStocks,
     ok |-> counts.ok,
     fail |-> counts.fail]

\* download_all.py 1110-1138: the entries of the tasks that have a result
\* are replaced, and the state is saved
CliSaveState ==
    /\ cPc = "update"
    /\ cSaved' = TRUE
    /\ cTasks' =
          [key \in CliTaskKeys |->
              IF key[1] = "kline" /\ key[2] <= Len(cResults)
              THEN NewTaskState(cPrevTasks[key], cResults[key[2]])
              ELSE IF key = <<"financial", 0>> /\ cFinResult # <<>>
              THEN NewTaskState(cPrevTasks[key], cFinResult)
              ELSE cPrevTasks[key]]
    /\ cPc' = "summary"
    /\ UNCHANGED <<cArgs, cPhase, cPeriod, cGroups, cGroup, cRoundVars, cOk, cFailed,
                   cInterrupted, cTotals, cResults, cFinResult, gInterrupted,
                   cInterrupts, cGhost, cSummary>>
    /\ UNCHANGED notCli

\* download_all.py 1141-1144: print_summary
CliSummary ==
    /\ cPc = "summary"
    /\ cSummary' = TRUE
    /\ cPc' = "exit"
    /\ UNCHANGED <<cArgs, cPhase, cPeriod, cGroups, cGroup, cRoundVars, cOk, cFailed,
                   cInterrupted, cTotals, cResults, cFinResult, gInterrupted,
                   cInterrupts, cGhost, cSaved, cTasks>>
    /\ UNCHANGED notCli

\* download_all.py 1149-1150: os._exit(0) when _interrupted is set;
\* otherwise main returns and the interpreter waits for its threads
CliExit ==
    /\ cPc = "exit"
    /\ cPc' = IF gInterrupted THEN "hard_exit" ELSE "returned"
    /\ UNCHANGED <<cArgs, cPhase, cPeriod, cGroups, cGroup, cRoundVars, cOk, cFailed,
                   cInterrupted, cTotals, cResults, cFinResult, gInterrupted,
                   cInterrupts, cGhost, cEnd>>
    /\ UNCHANGED notCli

\* a run of the script with some arguments
InitCli ==
    /\ cPc = "start"
    /\ cFull \in BOOLEAN
    /\ cSkipKline \in BOOLEAN
    /\ cSkipFin \in BOOLEAN
    /\ cNumPeriods \in CliPeriodCounts
    /\ cNumStocks \in CliStockCounts
    /\ cMaxRetries \in 0..MaxRetries
    /\ cDelay \in BOOLEAN
    /\ cNeed \in (IF cFull THEN {cNumStocks} ELSE 0..cNumStocks)
    /\ cPhase = "kline"
    /\ cPeriod = 0
    /\ cGroups = <<>>
    /\ cGroup = 0
    /\ cRound = 0
    /\ cIndices = <<>>
    /\ cSeq = 0
    /\ cOkCount = 0
    /\ cFailCount = 0
    /\ cToCount = 0
    /\ cFailedIdx = <<>>
    /\ cJobStatus = <<>>
    /\ cOk = 0
    /\ cFailed = <<>>
    /\ cInterrupted = FALSE
    /\ cTotalOk = 0
    /\ cTotalFail = 0
    /\ cTotalTo = 0
    /\ cResults = <<>>
    /\ cFinResult = <<>>
    /\ gInterrupted = FALSE
    /\ cInterrupts = 0
    /\ cIntJob = <<>>
    /\ cIntWhere = "none"
    /\ cPrevTasks \in PrevTasks
    /\ cSaved = FALSE
    /\ cTasks = <<>>
    /\ cUnfinished = {}
    /\ cSummary = FALSE

NextCli ==
    \/ CliStart
    \/ CliProbeDone
    \/ CliFinProbeDone
    \/ CliProbeInterrupted
    \/ CliBarInterrupted
    \/ CliDelayInterrupted
    \/ CliJob
    \/ CliDelayDone
    \/ CliJobInterrupted
    \/ CliRoundReturn
    \/ CliRetryOrFinish
    \/ CliPeriodEnd
    \/ CliCaught
    \/ CliSaveState
    \/ CliSummary
    \/ CliExit

\* a run of the script on its own
InitCliOnly == InitGuard /\ ExecIdle /\ PlanIdle /\ RunIdle /\ InitCli /\ FinIdle /\ LoopIdle /\ OrcIdle /\ YearIdle /\ SingleIdle /\ BatchesIdle /\ TradeIdle

SpecCli == InitCliOnly /\ [][NextCli]_vars

C19_InterruptEndsInHardExit ==
    (cPc \in {"hard_exit", "returned"} /\ cIntWhere # "none") =>
        /\ cSaved
        /\ cSummary
        /\ cPc = "hard_exit"

(***************************************************************************)
(* The freshness filter of download_financial_incremental:                 *)
(* probe_financial_cache and need_download (server/downloader.py).         *)
(***************************************************************************)
\* FINANCIAL_STALE_DAYS
FINANCIAL_STALE_DAYS == 90
\* FINANCIAL_MIN_RECORDS
FINANCIAL_MIN_RECORDS == 8

\* announcement dates of a primary table: 91, 90 and 10 days before Today
AnnDates == {20231202, 20231203, 20240221}
\* numbers of records of a primary table
RecordCounts == {7, 8}

\* what get_financial_data gives for an instrument: no table, an empty
\* frame, or a frame with count records whose m_anntime column is absent
\* ("nocolumn"), all NaN ("allnan") or has ("dates") the maximum ann, of
\* integer or of float dtype
FinCacheStates ==
    {[table |-> "missing", count |-> 0, col |-> "nocolumn", ann |-> NoDate,
      float |-> FALSE],
     [table |-> "frame", count |-> 0, col |-> "nocolumn", ann |-> NoDate,
      float |-> FALSE]}
        \cup [table : {"frame"}, count : RecordCounts,
              col : {"nocolumn", "allnan"}, ann : {NoDate}, float : {FALSE}]
        \cup [table : {"frame"}, count : RecordCounts, col : {"dates"},
              ann : AnnDates, float : BOOLEAN]

\* ---- str ----
\* a string is the sequence of the ASCII codes of its characters
RECURSIVE Pow10(_)
Pow10(k) == IF k = 0 THEN 1 ELSE 10 * Pow10(k - 1)

\* the eight digits of a date "YYYYMMDD"
DateStr(d) == [i \in 1..8 |-> 48 + ((d \div Pow10(8 - i)) % 10)]

\* str(max_ann.max()): "20240221" for an integer or string column,
\* "20240221.0" for a float column
AnnStr(c) == IF c.float THEN DateStr(c.ann) \o <<46, 48>> ELSE DateStr(c.ann)

\* a < b for strings
RECURSIVE StrLess(_, _)
StrLess(a, b) ==
    IF b = <<>> THEN FALSE
    ELSE IF a = <<>> THEN TRUE
    ELSE IF Head(a) # Head(b) THEN Head(a) < Head(b)
    ELSE StrLess(Tail(a), Tail(b))

\* line 346: stale_cutoff
StaleCutoff ==
    DateStr(FormatDate(MinusDays(ParseDate(Today), FINANCIAL_STALE_DAYS)))

\* a filter that does not look at the number of records
Classify_NoMinRecords(c) ==
    IF c.table # "frame" \/ c.count = 0 THEN "skip"
    ELSE IF c.col = "nocolumn" THEN "fresh"
    ELSE IF c.col = "allnan" THEN "stale"
    ELSE IF ~StrLess(AnnStr(c), StaleCutoff) THEN "fresh"
    ELSE "stale"

\* lines 352-371: what the probe does with the table of one instrument
Classify(c) ==
    IF c.table # "frame" \/ c.count = 0 THEN "skip"
    ELSE IF c.count < FINANCIAL_MIN_RECORDS THEN "incomplete"
    ELSE IF c.col = "nocolumn" THEN "fresh"
    ELSE IF c.col = "allnan" THEN "stale"
    ELSE IF ~StrLess(AnnStr(c), StaleCutoff) THEN "fresh"
    ELSE "stale"

\* [s for s in stocks if s not in fresh]
RECURSIVE NotIn(_, _)
NotIn(stocks, set) ==
    IF stocks = <<>> THEN <<>>
    ELSE (IF Head(stocks) \in set THEN <<>> ELSE <<Head(stocks)>>)
             \o NotIn(Tail(stocks), set)

\* lines 348-373: one batch of probe_financial_cache; get_financial_data
\* raises (the batch is logged and skipped) or every instrument of the
\* batch is classified
FinProbeBatch ==
    /\ fPc = "probe"
    /\ fBatch < NumBatches(fStocks, PROBE_BATCH_SIZE)
    /\ LET batch == Range(Batch(fStocks, fBatch, PROBE_BATCH_SIZE))
       IN  \E raises \in BOOLEAN :
              IF raises
              THEN /\ fProbeFailed' = fProbeFailed \cup batch
                   /\ UNCHANGED <<fFresh, fStaleCount, fIncompleteCount>>
              ELSE /\ fFresh' =
                         fFresh \cup {s \in batch : Classify(fCache[s]) = "fresh"}
                   /\ fStaleCount' = fStaleCount
                         + Cardinality({s \in batch : Classify(fCache[s]) = "stale"})
                   /\ fIncompleteCount' = fIncompleteCount
                         + Cardinality({s \in batch :
                                           Classify(fCache[s]) = "incomplete"})
                   /\ UNCHANGED fProbeFailed
    /\ fBatch' = fBatch + 1
    /\ UNCHANGED <<fPc, fStocks, fCache, fNeed, fResult>>
    /\ UNCHANGED notFin

\* lines 577-590: need_download; the orchestrator returns when it is empty
FinProbeDone ==
    /\ fPc = "probe"
    /\ fBatch = NumBatches(fStocks, PROBE_BATCH_SIZE)
    /\ fNeed' = NotIn(fStocks, fFresh)
    /\ IF NotIn(fStocks, fFresh) = <<>>
       THEN /\ fResult' = [ok |-> Len(fStocks), fail |-> 0, timeout |-> 0]
            /\ fPc' = "returned"
       ELSE /\ fPc' = "download"
            /\ UNCHANGED fResult
    /\ UNCHANGED <<fStocks, fCache, fBatch, fFresh, fStaleCount, fIncompleteCount,
                   fProbeFailed>>
    /\ UNCHANGED notFin

\* an invocation on a list of instruments over some state of the local cache
InitFin ==
    /\ fPc = "probe"
    /\ fStocks \in StockLists
    /\ fCache \in [Instruments -> FinCacheStates]
    /\ \A s \in Instruments :
          s \notin Range(fStocks) => fCache[s].table = "missing"
    /\ fBatch = 0
    /\ fFresh = {}
    /\ fStaleCount = 0
    /\ fIncompleteCount = 0
    /\ fProbeFailed = {}
    /\ fNeed = <<>>
    /\ fResult = <<>>

NextFin ==
    \/ FinProbeBatch
    \/ FinProbeDone

\* an invocation of the freshness filter on its own
InitFinOnly == InitGuard /\ ExecIdle /\ PlanIdle /\ RunIdle /\ CliIdle /\ InitFin /\ LoopIdle /\ OrcIdle /\ YearIdle /\ SingleIdle /\ BatchesIdle /\ TradeIdle

SpecFin == InitFinOnly /\ [][NextFin]_vars

(***************************************************************************)
(* Properties of the freshness filter.                                     *)
(***************************************************************************)
\* the primary table read for s has an announcement date at most
\* FINANCIAL_STALE_DAYS days old
AnnWithinWindow(s) ==
    /\ fCache[s].col = "dates"
    /\ DaysBetween(ParseDate(Today), ParseDate(fCache[s].ann))
           <= FINANCIAL_STALE_DAYS

MaxCycles == 2
\* asyncio.sleep(86400)
SLEEP_SECONDS == 86400

\* largest duration of the tasks of one cycle, in seconds
MaxElapsed == 120
\* how long an awaited executor call takes, in seconds
Durations == {0, 60}
Delays == {d \in Durations : sElapsed + d <= MaxElapsed}
\* the invocations of a task runner; 1 is the one of scheduler_loop
Invocations == {1, 2}

KlineKey(i) == <<"kline", i>>
FinancialKey == <<"financial", 0>>
TaskKeys == {KlineKey(i) : i \in 1..NumPeriods} \cup {FinancialKey}

\* what identifies an invocation of a task: who runs it, in which cycle
Stamp(p) == [inv |-> p, cycle |-> sCycle]
NoStamp == [inv |-> 0, cycle |-> 0]

sConfig == <<sKlineEnabled, sFinEnabled, sNumPeriods>>
sTime == <<sElapsed, sWake, sGap>>
sState == <<sRunning, sLastResult, sLastRunTime>>
sDaily == <<sTask, sDailyBusy, sDailyRaised>>
wVars == <<wPc, wKind, wPeriod>>

\* a scheduler_loop that sleeps before its first cycle
LoopEnter_SleepsFirst ==
    /\ sPc = "entry"
    /\ sPc' = "sleeping"
    /\ sWake' = sElapsed + SLEEP_SECONDS
    /\ UNCHANGED <<sConfig, sDaily, sCycle, sElapsed, sGap, sLog, wVars, sState,
                   sInFlight>>
    /\ UNCHANGED notLoop

\* scheduler.py 161-170: scheduler_loop enters `while True` and calls
\* run_daily_downloads
LoopEnter ==
    /\ sPc = "entry"
    /\ sPc' = "daily_start"
    /\ sCycle' = 1
    /\ sTask' = 1
    /\ sGap' = sElapsed
    /\ sElapsed' = 0
    /\ UNCHANGED <<sConfig, sDailyBusy, sDailyRaised, sWake, sLog, wVars, sState,
                   sInFlight>>
    /\ UNCHANGED notLoop

\* scheduler.py 58-60: the next function of DAILY_TASKS goes to the executor
DailyStart ==
    /\ sPc = "daily_start"
    /\ sPc' = "daily_wait"
    /\ sDailyBusy' = sDailyBusy \cup {sTask}
    /\ sLog' = Append(sLog, <<"daily", sTask>>)
    /\ UNCHANGED <<sConfig, sTask, sDailyRaised, sCycle, sTime, wVars, sState,
                   sInFlight>>
    /\ UNCHANGED notLoop

\* a run_daily_downloads without its try statement: the exception of a
\* function leaves run_daily_downloads and scheduler_loop
DailyEnd_RaiseEscapes ==
    /\ sPc = "daily_wait"
    /\ \E out \in {"ok", "raise"}, d \in Delays :
          /\ sElapsed' = sElapsed + d
          /\ sDailyRaised' = IF out = "raise" /\ sDailyRaised = 0
                             THEN sTask ELSE sDailyRaised
          /\ IF out = "raise"
             THEN sPc' = "exited" /\ UNCHANGED sTask
             ELSE IF sTask < NumDailyTasks
                  THEN sPc' = "daily_start" /\ sTask' = sTask + 1
                  ELSE sPc' = "kline_enter" /\ UNCHANGED sTask
    /\ sDailyBusy' = sDailyBusy \ {sTask}
    /\ UNCHANGED <<sConfig, sCycle, sWake, sGap, sLog, wVars, sState, sInFlight>>
    /\ UNCHANGED notLoop

\* scheduler.py 58-63: the awaited function returns or raises (logged), and
\* the for loop goes on
DailyEnd ==
    /\ sPc = "daily_wait"
    /\ \E out \in {"ok", "raise"}, d \in Delays :
          /\ sElapsed' = sElapsed + d
          /\ sDailyRaised' = IF out = "raise" /\ sDailyRaised = 0
                             THEN sTask ELSE sDailyRaised
    /\ sDailyBusy' = sDailyBusy \ {sTask}
    /\ IF sTask < NumDailyTasks
       THEN sPc' = "daily_start" /\ sTask' = sTask + 1
       ELSE sPc' = "kline_enter" /\ UNCHANGED sTask
    /\ UNCHANGED <<sConfig, sCycle, sWake, sGap, sLog, wVars, sState, sInFlight>>
    /\ UNCHANGED notLoop

\* scheduler.py 173-175: the K-line runner is called when enabled
LoopKline ==
    /\ sPc = "kline_enter"
    /\ sDailyRaised' = 0
    /\ IF sKlineEnabled
       THEN /\ sPc' = "kline"
            /\ wPc' = [wPc EXCEPT ![1] = "entry"]
            /\ wKind' = [wKind EXCEPT ![1] = "kline"]
            /\ sLog' = Append(sLog, <<"kline_runner", 0>>)
       ELSE /\ sPc' = "fin_enter"
            /\ UNCHANGED <<wPc, wKind, sLog>>
    /\ UNCHANGED <<sConfig, sTask, sDailyBusy, sCycle, sTime, wPeriod, sState,
                   sInFlight>>
    /\ UNCHANGED notLoop

\* scheduler.py 175-177: the K-line runner returned, or raised (logged)
LoopAfterKline ==
    /\ sPc = "kline"
    /\ wPc[1] \in {"ret", "raised"}
    /\ sPc' = "fin_enter"
    /\ wPc' = [wPc EXCEPT ![1] = "idle"]
    /\ UNCHANGED <<sConfig, sDaily, sCycle, sTime, sLog, wKind, wPeriod, sState,
                   sInFlight>>
    /\ UNCHANGED notLoop

\* scheduler.py 180-182: the financial runner is called when enabled
LoopFin ==
    /\ sPc = "fin_enter"
    /\ IF sFinEnabled
       THEN /\ sPc' = "fin"
            /\ wPc' = [wPc EXCEPT ![1] = "entry"]
            /\ wKind' = [wKind EXCEPT ![1] = "financial"]
            /\ sLog' = Append(sLog, <<"financial_runner", 0>>)
       ELSE /\ sPc' = "sleep_enter"
            /\ UNCHANGED <<wPc, wKind, sLog>>
    /\ UNCHANGED <<sConfig, sDaily, sCycle, sTime, wPeriod, sState, sInFlight>>
    /\ UNCHANGED notLoop

\* scheduler.py 182-184: the financial runner returned, or raised (logged)
LoopAfterFin ==
    /\ sPc = "fin"
    /\ wPc[1] \in {"ret", "raised"}
    /\ sPc' = "sleep_enter"
    /\ wPc' = [wPc EXCEPT ![1] = "idle"]
    /\ UNCHANGED <<sConfig, sDaily, sCycle, sTime, sLog, wKind, wPeriod, sState,
                   sInFlight>>
    /\ UNCHANGED notLoop

\* scheduler.py 187: asyncio.sleep(86400) starts
SleepStart ==
    /\ sPc = "sleep_enter"
    /\ sPc' = "sleeping"
    /\ sWake' = sElapsed + SLEEP_SECONDS
    /\ sLog' = Append(sLog, <<"sleep", 0>>)
    /\ UNCHANGED <<sConfig, sDaily, sCycle, sElapsed, sGap, wVars, sState, sInFlight>>
    /\ UNCHANGED notLoop

\* scheduler.py 187, 168-170: the sleep ends and the next cycle starts
SleepEnd ==
    /\ sPc = "sleeping"
    /\ sCycle < MaxCycles
    /\ sPc' = "daily_start"
    /\ sCycle' = sCycle + 1
    /\ sTask' = 1
    /\ sGap' = sWake
    /\ sElapsed' = 0
    /\ sLog' = <<>>
    /\ UNCHANGED <<sConfig, sDailyBusy, sDailyRaised, sWake, wVars, sState, sInFlight>>
    /\ UNCHANGED notLoop

\* scheduler.py 93-97: the first period from `from` on whose key is not
\* marked running (0: none); the periods before it are skipped
RECURSIVE FirstFree(_, _)
FirstFree(from, running) ==
    IF from > sNumPeriods THEN 0
    ELSE IF running[KlineKey(from)] THEN FirstFree(from + 1, running)
    ELSE from

\* scheduler.py 93-103: the for loop of _run_kline_incremental up to its
\* next await: set_running(task_key, True) and the download in the executor
KlineAdvance(p, from, running, inflight) ==
    LET i == FirstFree(from, running)
    IN  IF i = 0
        THEN /\ wPc' = [wPc EXCEPT ![p] = "ret"]
             /\ sRunning' = running
             /\ sInFlight' = inflight
             /\ UNCHANGED <<wPeriod, sLog>>
        ELSE /\ wPc' = [wPc EXCEPT ![p] = "k_run"]
             /\ wPeriod' = [wPeriod EXCEPT ![p] = i]
             /\ sRunning' = [running EXCEPT ![KlineKey(i)] = TRUE]
             /\ sInFlight' = [inflight EXCEPT ![KlineKey(i)] = @ \cup {p}]
             /\ sLog' = Append(sLog, <<"kline", i>>)

\* scheduler.py 71-81: no period configured, or get_stock_list goes to the
\* executor
KlineEntry(p) ==
    /\ wPc[p] = "entry"
    /\ wKind[p] = "kline"
    /\ wPc' = [wPc EXCEPT ![p] = IF sNumPeriods = 0 THEN "ret" ELSE "k_list"]
    /\ UNCHANGED <<sPc, sConfig, sDaily, sCycle, sTime, sLog, wKind, wPeriod,
                   sState, sInFlight>>
    /\ UNCHANGED notLoop

\* scheduler.py 78-103: get_stock_list raises or returns; with instruments
\* the for loop starts
KlineList(p) ==
    /\ wPc[p] = "k_list"
    /\ \E out \in {"raise", "empty", "stocks"}, d \in Delays :
          /\ sElapsed' = sElapsed + d
          /\ IF out = "stocks"
             THEN KlineAdvance(p, 1, sRunning, sInFlight)
             ELSE /\ wPc' = [wPc EXCEPT ![p] = "ret"]
                  /\ UNCHANGED <<wPeriod, sRunning, sInFlight, sLog>>
    /\ UNCHANGED <<sPc, sConfig, sDaily, sCycle, sWake, sGap, wKind, sLastResult,
                   sLastRunTime>>
    /\ UNCHANGED notLoop

\* a K-line runner without `except Exception`: the exception of a period's
\* download leaves the runner after the finally clause
KlineDownloadEnd_RaiseEscapes(p) ==
    /\ wPc[p] = "k_run"
    /\ LET key == KlineKey(wPeriod[p])
       IN  \E out \in {"result", "raise"}, d \in Delays :
              /\ sElapsed' = sElapsed + d
              /\ sLastResult' = IF out = "result"
                                THEN [sLastResult EXCEPT ![key] = Stamp(p)]
                                ELSE sLastResult
              /\ sLastRunTime' = IF out = "result"
                                 THEN [sLastRunTime EXCEPT ![key] = Stamp(p)]
                                 ELSE sLastRunTime
              /\ IF out = "raise"
                 THEN /\ wPc' = [wPc EXCEPT ![p] = "raised"]
                      /\ sRunning' = [sRunning EXCEPT ![key] = FALSE]
                      /\ sInFlight' = [sInFlight EXCEPT ![key] = @ \ {p}]
                      /\ UNCHANGED <<wPeriod, sLog>>
                 ELSE KlineAdvance(p, wPeriod[p] + 1,
                                   [sRunning EXCEPT ![key] = FALSE],
                                   [sInFlight EXCEPT ![key] = @ \ {p}])
    /\ UNCHANGED <<sPc, sConfig, sDaily, sCycle, sWake, sGap, wKind>>
    /\ UNCHANGED notLoop

\* scheduler.py 100-108 and 93-103: the download of a period returns
\* (set_result) or raises (logged); set_running(task_key, False); the for
\* loop goes on.  set_result stores the result and datetime.now(), modelled
\* by the invocation that stored them.
KlineDownloadEnd(p) ==
    /\ wPc[p] = "k_run"
    /\ LET key == KlineKey(wPeriod[p])
       IN  \E out \in {"result", "raise"}, d \in Delays :
              /\ sElapsed' = sElapsed + d
              /\ sLastResult' = IF out = "result"
                                THEN [sLastResult EXCEPT ![key] = Stamp(p)]
                                ELSE sLastResult
              /\ sLastRunTime' = IF out = "result"
                                 THEN [sLastRunTime EXCEPT ![key] = Stamp(p)]
                                 ELSE sLastRunTime
              /\ KlineAdvance(p, wPeriod[p] + 1,
                              [sRunning EXCEPT ![key] = FALSE],
                              [sInFlight EXCEPT ![key] = @ \ {p}])
    /\ UNCHANGED <<sPc, sConfig, sDaily, sCycle, sWake, sGap, wKind>>
    /\ UNCHANGED notLoop

\* scheduler.py 116-126: the key is marked running (the invocation is
\* skipped), or get_stock_list goes to the executor
FinEntry(p) ==
    /\ wPc[p] = "entry"
    /\ wKind[p] = "financial"
    /\ wPc' = [wPc EXCEPT ![p] = IF sRunning[FinancialKey] THEN "ret" ELSE "f_list"]
    /\ UNCHANGED <<sPc, sConfig, sDaily, sCycle, sTime, sLog, wKind, wPeriod,
                   sState, sInFlight>>
    /\ UNCHANGED notLoop

\* scheduler.py 123-142: get_stock_list raises or returns; with instruments
\* set_running(task_key, True) and the download in the executor
FinList(p) ==
    /\ wPc[p] = "f_list"
    /\ \E out \in {"raise", "empty", "stocks"}, d \in Delays :
          /\ sElapsed' = sElapsed + d
          /\ IF out = "stocks"
             THEN /\ wPc' = [wPc EXCEPT ![p] = "f_run"]
                  /\ sRunning' = [sRunning EXCEPT ![FinancialKey] = TRUE]
                  /\ sInFlight' = [sInFlight EXCEPT ![FinancialKey] = @ \cup {p}]
                  /\ sLog' = Append(sLog, FinancialKey)
             ELSE /\ wPc' = [wPc EXCEPT ![p] = "ret"]
                  /\ UNCHANGED <<sRunning, sInFlight, sLog>>
    /\ UNCHANGED <<sPc, sConfig, sDaily, sCycle, sWake, sGap, wKind, wPeriod,
                   sLastResult, sLastRunTime>>
    /\ UNCHANGED notLoop

\* scheduler.py 139-147: the download returns (set_result) or raises
\* (logged); set_running(task_key, False)
FinDownloadEnd(p) ==
    /\ wPc[p] = "f_run"
    /\ \E out \in {"result", "raise"}, d \in Delays :
          /\ sElapsed' = sElapsed + d
          /\ sLastResult' = IF out = "result"
                            THEN [sLastResult EXCEPT ![FinancialKey] = Stamp(p)]
                            ELSE sLastResult
          /\ sLastRunTime' = IF out = "result"
                             THEN [sLastRunTime EXCEPT ![FinancialKey] = Stamp(p)]
                             ELSE sLastRunTime
    /\ sRunning' = [sRunning EXCEPT ![FinancialKey] = FALSE]
    /\ sInFlight' = [sInFlight EXCEPT ![FinancialKey] = @ \ {p}]
    /\ wPc' = [wPc EXCEPT ![p] = "ret"]
    /\ UNCHANGED <<sPc, sConfig, sDaily, sCycle, sWake, sGap, sLog, wKind, wPeriod>>
    /\ UNCHANGED notLoop

\* DownloadSchedulerState() (downloader.py 91-94) and no invocation
InitState ==
    /\ sRunning = [k \in TaskKeys |-> FALSE]
    /\ sLastResult = [k \in TaskKeys |-> NoStamp]
    /\ sLastRunTime = [k \in TaskKeys |-> NoStamp]
    /\ sInFlight = [k \in TaskKeys |-> {}]
    /\ wPeriod = [p \in Invocations |-> 0]
    /\ sTask = 0
    /\ sCycle = 0
    /\ sElapsed = 0
    /\ sWake = 0
    /\ sGap = 0
    /\ sLog = <<>>
    /\ sDailyBusy = {}
    /\ sDailyRaised = 0

\* cli.py 174-189 (scheduler_main): the process enters scheduler_loop with a new
\* state and the settings of the environment
InitLoop ==
    /\ InitState
    /\ sPc = "entry"
    /\ sKlineEnabled \in BOOLEAN
    /\ sFinEnabled \in BOOLEAN
    /\ sNumPeriods \in 0..NumPeriods
    /\ wPc = [p \in Invocations |-> "idle"]
    /\ wKind = [p \in Invocations |-> "none"]

NextLoop ==
    \/ LoopEnter
    \/ DailyStart
    \/ DailyEnd
    \/ LoopKline
    \/ KlineEntry(1)
    \/ KlineList(1)
    \/ KlineDownloadEnd(1)
    \/ LoopAfterKline
    \/ LoopFin
    \/ FinEntry(1)
    \/ FinList(1)
    \/ FinDownloadEnd(1)
    \/ LoopAfterFin
    \/ SleepStart
    \/ SleepEnd

\* the scheduler process on its own
InitLoopOnly == InitGuard /\ ExecIdle /\ PlanIdle /\ RunIdle /\ CliIdle /\ FinIdle /\ InitLoop /\ OrcIdle /\ YearIdle /\ SingleIdle /\ BatchesIdle /\ TradeIdle

SpecLoop == InitLoopOnly /\ [][NextLoop]_vars

\* the awaited executor calls return, and the event loop runs the coroutine
FairSpecLoop ==
    /\ SpecLoop
    /\ WF_vars(LoopEnter) /\ WF_vars(DailyStart) /\ WF_vars(DailyEnd)
    /\ WF_vars(LoopKline) /\ WF_vars(KlineEntry(1)) /\ WF_vars(KlineList(1))
    /\ WF_vars(KlineDownloadEnd(1)) /\ WF_vars(LoopAfterKline)
    /\ WF_vars(LoopFin) /\ WF_vars(FinEntry(1)) /\ WF_vars(FinList(1))
    /\ WF_vars(FinDownloadEnd(1)) /\ WF_vars(LoopAfterFin)
    /\ WF_vars(SleepStart) /\ WF_vars(SleepEnd)

\* two invocations of one task runner on one state, the second started
\* before the first has finished
InitReentry ==
    /\ InitState
    /\ sPc = "off"
    /\ sKlineEnabled = TRUE
    /\ sFinEnabled = TRUE
    /\ sNumPeriods \in 1..NumPeriods
    /\ wPc = [p \in Invocations |-> "entry"]
    /\ \E k \in {"kline", "financial"} : wKind = [p \in Invocations |-> k]

NextReentry ==
    \/ \E p \in Invocations : KlineEntry(p)
    \/ \E p \in Invocations : KlineList(p)
    \/ \E p \in Invocations : KlineDownloadEnd(p)
    \/ \E p \in Invocations : FinEntry(p)
    \/ \E p \in Invocations : FinList(p)
    \/ \E p \in Invocations : FinDownloadEnd(p)

InitReentryOnly == InitGuard /\ ExecIdle /\ PlanIdle /\ RunIdle /\ CliIdle /\ FinIdle /\ InitReentry /\ OrcIdle /\ YearIdle /\ SingleIdle /\ BatchesIdle /\ TradeIdle

SpecReentry == InitReentryOnly /\ [][NextReentry]_vars

(***************************************************************************)
(* Properties of the scheduler.                                            *)
(***************************************************************************)
\* the tasks of one kind started in the running cycle, in order
Started(kind) == SelectSeq(sLog, LAMBDA e : e[1] = kind)

\* the first n tasks of one kind, in order
InOrder(kind, n) == [i \in 1..n |-> <<kind, i>>]

\* the phase of a cycle a log entry belongs to
Rank(e) ==
    CASE e[1] = "daily" -> 1
      [] e[1] \in {"kline_runner", "kline"} -> 2
      [] e[1] \in {"financial_runner", "financial"} -> 3
      [] OTHER -> 4

\* what runs in the executor for the scheduler
Busy ==
    {<<"daily", t>> : t \in sDailyBusy} \cup {k \in TaskKeys : sInFlight[k] # {}}

\* the daily downloads and the K-line runner of the cycle are over
AfterKlinePhase == sPc \in {"fin_enter", "fin", "sleep_enter", "sleeping"}

\* C22: the first cycle starts when scheduler_loop is entered; the tasks of
\* a cycle start in the order daily downloads, K-line periods in configured
\* order, financial, sleep; at most one of them runs at a time and none
\* during the sleep; at most one task key is marked running; the loop never
\* exits and always has a next step.
C22_CycleOrder ==
    /\ sCycle = 1 => sGap = 0
    /\ \A i, j \in DOMAIN sLog :
          i < j => /\ Rank(sLog[i]) <= Rank(sLog[j])
                   /\ sLog[i][1] = sLog[j][1] => sLog[i][2] < sLog[j][2]
    /\ Started("kline") = InOrder("kline", Len(Started("kline")))
    /\ (AfterKlinePhase /\ Started("kline") # <<>>) =>
           Len(Started("kline")) = sNumPeriods
    /\ Cardinality(Busy) <= 1
    /\ Cardinality({k \in TaskKeys : sRunning[k]}) <= 1
    /\ sPc \in {"sleep_enter", "sleeping"} =>
           /\ Busy = {}
           /\ \A k \in TaskKeys : ~sRunning[k]
    /\ sPc # "exited"
    /\ (sPc = "sleeping" /\ sCycle = MaxCycles) \/ ENABLED NextLoop

\* The sleep of a first cycle that ran six daily downloads, two K-line
\* periods and the financial task.
C22_Witness ==
    /\ sPc = "sleeping"
    /\ sCycle = 1
    /\ Len(Started("daily")) = NumDailyTasks
    /\ Started("kline") = <<KlineKey(1), KlineKey(2)>>
    /\ Started("financial") = <<FinancialKey>>
    /\ sLog[Len(sLog)] = <<"sleep", 0>>

\* C23: the daily downloads of a cycle start one at a time in list order,
\* each once, and all of them have started when run_daily_downloads is
\* over, whatever raised.
C23_AllDailyAttempted ==
    /\ Cardinality(sDailyBusy) <= 1
    /\ Started("daily") = InOrder("daily", Len(Started("daily")))
    /\ sPc = "daily_start" => Len(Started("daily")) = sTask - 1 /\ sDailyBusy = {}
    /\ sPc = "daily_wait" => Len(Started("daily")) = sTask /\ sDailyBusy = {sTask}
    /\ (sCycle >= 1 /\ sPc \notin {"daily_start", "daily_wait"}) =>
           /\ Len(Started("daily")) = NumDailyTasks
           /\ sDailyBusy = {}

\* The end of run_daily_downloads in a cycle whose first download raised.
C23_Witness ==
    /\ sPc = "kline_enter"
    /\ sDailyRaised = 1
    /\ Started("daily") = InOrder("daily", NumDailyTasks)

C25_StateUpdatedOnCompletion ==
    [][\A k \in TaskKeys : \A p \in Invocations :
          (p \in sInFlight[k] /\ p \notin sInFlight'[k]) =>
              /\ sLastResult'[k] = Stamp(p)
              /\ sLastRunTime'[k] = Stamp(p)
              /\ ~sRunning'[k]]_vars

\* C26: scheduler_loop never exits; once a K-line period has started in a
\* cycle every configured period starts in it, and the financial runner is
\* called in every cycle when enabled, whatever raised; the loop always
\* reaches its sleep, and the sleep is followed by the next cycle.
C26_LoopSurvivesFailures ==
    /\ [](sPc # "exited")
    /\ []((AfterKlinePhase /\ Started("kline") # <<>>) =>
              Started("kline") = InOrder("kline", sNumPeriods))
    /\ []((sPc \in {"sleep_enter", "sleeping"} /\ sFinEnabled) =>
              Started("financial_runner") # <<>>)
    /\ (sPc # "sleeping") ~> (sPc = "sleeping")
    /\ \A c \in 1..(MaxCycles - 1) :
          (sPc = "sleeping" /\ sCycle = c) ~> (sPc = "daily_start" /\ sCycle = c + 1)

\* A second cycle after a first one in which the download of the first
\* period raised (no result stored) and the second period and the financial
\* task ran.
C26_Witness ==
    /\ sCycle = 2
    /\ sPc = "daily_start"
    /\ sNumPeriods = 2
    /\ sLastResult[KlineKey(1)] = NoStamp
    /\ sLastResult[KlineKey(2)].cycle = 1
    /\ sLastResult[FinancialKey].cycle = 1

\* C27 as stated: consecutive cycles start exactly 24 hours apart.
C27_FixedCyclePeriod ==
    sCycle >= 2 => sGap = SLEEP_SECONDS

(***************************************************************************)
(* Order and timeouts of the retrying runner.                              *)
(***************************************************************************)
\* the positions of a list are in increasing order of index
Increasing(lst) == \A i, j \in DOMAIN lst : i < j => lst[i] < lst[j]

\* the jobs of the running group attempted in the running round
AttemptedInRound == {id \in GroupJobs : rLastRound[id] = rRound}

\* C28: a round attempts the jobs of its index list one at a time, in list
\* order; the failed list of a round holds failed jobs of the round in the
\* order of the round's list, which is the order of the group's list.
C28_ListOrderKept ==
    /\ [](rPc \in {"job", "loop"} =>
             /\ Increasing(rIndices)
             /\ Increasing(resFailed)
             /\ AttemptedInRound = {<<rGroup, rIndices[k]>> : k \in 1..rSeq}
             /\ {resFailed[k] : k \in DOMAIN resFailed}
                   \subseteq {rIndices[k] : k \in 1..rSeq})
    /\ [][(rAttempts' # rAttempts) =>
             /\ rSeq' = rSeq + 1
             /\ \A id \in DOMAIN rAttempts :
                   rAttempts'[id] # rAttempts[id] <=> id = <<rGroup, rIndices[rSeq']>>]_vars

\* A returned retry round over the first and the third job of a group of
\* three, both of which failed again.
C28_Witness ==
    /\ rPc = "loop"
    /\ rRound = 1
    /\ rIndices = <<1, 3>>
    /\ resFailed = <<1, 3>>
    /\ rStatus[<<rGroup, 2>>] = "ok"

\* C29 as stated: no job is attempted a second time while a job of the
\* invocation's job list has not been attempted.
C29_FirstAttemptsBeforeRetries ==
    [][\A id \in DOMAIN rAttempts :
          (rAttempts'[id] # rAttempts[id] /\ rAttempts[id] >= 1) =>
              \A other \in DOMAIN rAttempts : rAttempts[other] >= 1]_vars

\* t is the integer part of base * 1.5^r
IsFloorOfPower(t, base, r) ==
    /\ t * Pow(2, r) <= base * Pow(3, r)
    /\ base * Pow(3, r) < (t + 1) * Pow(2, r)

\* C30 as stated: the first round runs at the base timeout, retry round r at
\* floor(base * 1.5^r), and every retry round at a larger timeout than the
\* round before it.
C30_TimeoutsGrow ==
    rPc \in {"job", "loop"} =>
        /\ rRound = 0 => rTimeout = rBase
        /\ rRound >= 1 =>
              /\ IsFloorOfPower(rTimeout, rBase, rRound)
              /\ rTimeout > rPrevTimeout

\* C30, amended: the first round runs at the base timeout, retry round r at
\* floor(base * 1.5^r); no retry round has a smaller timeout than the round
\* before it, and a larger one when the base timeout is at least 2.
C30_TimeoutsNeverShrink ==
    rPc \in {"job", "loop"} =>
        /\ rRound = 0 => rTimeout = rBase
        /\ rRound >= 1 =>
              /\ IsFloorOfPower(rTimeout, rBase, rRound)
              /\ IsFloorOfPower(rPrevTimeout, rBase, rRound - 1)
              /\ rTimeout >= rPrevTimeout
              /\ rBase >= 2 => rTimeout > rPrevTimeout

\* The second retry round of a K-line group at base timeout 5: 11 seconds
\* after 7.
C30_Witness ==
    /\ rPc = "job"
    /\ rKind = "kline"
    /\ rBase = 5
    /\ rRound = 2
    /\ rPrevTimeout = 7
    /\ rTimeout = 11

\* C29, amended: within a date group (K-line) or the batch list
\* (financial), a job is first attempted in the group's first round, at the
\* base timeout, and no job is attempted a second time while a job of the
\* same group has not been attempted.
C29_FirstAttemptsBeforeRetriesInGroup ==
    [][\A id \in DOMAIN rAttempts :
          rAttempts'[id] # rAttempts[id] =>
              /\ rAttempts[id] = 0 => (rRound = 0 /\ rTimeout = rBase)
              /\ rAttempts[id] >= 1 =>
                    \A other \in DOMAIN rAttempts :
                        other[1] = id[1] => rAttempts[other] >= 1]_vars

\* The retry of the first of two financial batches, after the first attempt
\* of both.
C29_Witness ==
    /\ rPc = "job"
    /\ rKind = "financial"
    /\ rRound = 1
    /\ rSeq = 1
    /\ {<<1, 1>>, <<1, 2>>} \subseteq DOMAIN rAttempts
    /\ rAttempts[<<1, 1>>] = 2
    /\ rAttempts[<<1, 2>>] = 1

(***************************************************************************)
(* Repeated invocations of an incremental orchestrator on one cache:       *)
(* download_kline_incremental and download_financial_incremental           *)
(* (server/downloader.py), each invocation as one step from the cache it   *)
(* finds to its result.  The probes, the planner and the retry loop are    *)
(* modelled step by step in the components above; here a job ends ok after *)
(* at most 1 + max_retries attempts or fails after exactly that many, and  *)
(* every attempt is one native download call.                              *)
(***************************************************************************)
\* largest number of invocations in a row
MaxRuns == 2

\* what the cache holds of an instrument.  K-line: no data, data without
\* the sentinel year, data that ends before today, data up to today.
\* Financial: no table, fewer than FINANCIAL_MIN_RECORDS records, an
\* announcement date before the cutoff, a date within the window.
OrcStatuses == {"absent", "incomplete", "stale", "fresh"}
OrcStockCounts == {0, 1, 2}

OrcStocks == [i \in 1..oN |-> i]

\* downloader.py 327-330, 370-373 and 479-480: a local read that raises is
\* logged and its instruments count as having no data
Probed(raised) == [s \in 1..oN |-> IF raised THEN "absent" ELSE oCache[s]]

\* downloader.py 484-490: the order of _gap_sort_key on these statuses
OrcGapRank(st) ==
    CASE st = "absent" -> 3
      [] st = "incomplete" -> 2
      [] st = "stale" -> 1
      [] OTHER -> 0

\* downloader.py 492-501: one date group per instrument, largest gap first,
\* from the start ("") or from the last date minus the overlap
KlineJobsOf(found) ==
    LET byRank(r) == SelectSeq(OrcStocks, LAMBDA s : OrcGapRank(found[s]) = r)
        sorted == byRank(3) \o byRank(2) \o byRank(1) \o byRank(0)
    IN  [j \in 1..oN |->
            [stocks |-> <<sorted[j]>>,
             full |-> found[sorted[j]] \in {"absent", "incomplete"}]]

\* a financial orchestrator without the freshness filter
NeedDownload_All(found) == OrcStocks

\* downloader.py 577-578: need_download
NeedDownload(found) == SelectSeq(OrcStocks, LAMBDA s : found[s] # "fresh")

\* downloader.py 590-591: make_batches(need_download, batch_size)
FinancialJobsOf(found) ==
    LET need == NeedDownload(found)
    IN  [k \in 1..NumBatches(need, oBatchSize) |->
            [stocks |-> Batch(need, k - 1, oBatchSize), full |-> TRUE]]

\* the ways a list of n jobs can run: attempts and final status per job
JobRuns(n) ==
    {r \in [1..n -> [att : 1..(1 + oMaxRetries), st : {"ok", "fail"}]] :
        \A j \in 1..n : r[j].st = "fail" => r[j].att = 1 + oMaxRetries}

RECURSIVE SumAttempts(_, _)
SumAttempts(r, n) == IF n = 0 THEN 0 ELSE r[n].att + SumAttempts(r, n - 1)

\* the instruments of the jobs with final status st
RECURSIVE StocksWith(_, _, _, _)
StocksWith(jobs, r, st, n) ==
    IF n = 0 THEN {}
    ELSE (IF r[n].st = st THEN Range(jobs[n].stocks) ELSE {})
             \cup StocksWith(jobs, r, st, n - 1)

\* what a download that ended ok can leave in the cache
Updated(st) == IF st = "absent" THEN {"stale", "fresh"} ELSE {st, "fresh"}

\* the caches an invocation can leave behind
CachesAfter(jobs, r) ==
    LET okStocks == StocksWith(jobs, r, "ok", Len(jobs))
    IN  {c \in [1..oN -> OrcStatuses] :
            \A s \in 1..oN : IF s \in okStocks THEN c[s] \in Updated(oCache[s])
                             ELSE c[s] = oCache[s]}

\* what every invocation records
OrcInvoked(raised, jobs, r) ==
    /\ oRun' = oRun + 1
    /\ oFreshAtStart' = (\A s \in 1..oN : oCache[s] = "fresh")
    /\ oProbeRaised' = raised
    /\ oJobs' = jobs
    /\ oCalls' = Append(oCalls, SumAttempts(r, Len(jobs)))
    /\ oCache' \in CachesAfter(jobs, r)
    /\ UNCHANGED <<oPc, oKind, oN, oBatchSize, oMaxRetries>>

\* downloader.py 443-552: download_kline_incremental(stocks, period)
OrcKline ==
    /\ oPc = "ready"
    /\ oKind = "kline"
    /\ oRun < MaxRuns
    /\ \E raised \in BOOLEAN :
          LET jobs == KlineJobsOf(Probed(raised))
          IN  \E r \in JobRuns(Len(jobs)) :
                 LET failed == Cardinality(StocksWith(jobs, r, "fail", Len(jobs)))
                 IN  /\ OrcInvoked(raised, jobs, r)
                     /\ oResult' = [ok |-> oN - failed, fail |-> failed,
                                    timeout |-> failed]
    /\ UNCHANGED notOrc

\* downloader.py 555-622: download_financial_incremental(stocks)
OrcFinancial ==
    /\ oPc = "ready"
    /\ oKind = "financial"
    /\ oRun < MaxRuns
    /\ \E raised \in BOOLEAN :
          LET jobs == FinancialJobsOf(Probed(raised))
          IN  \E r \in JobRuns(Len(jobs)) :
                 LET failed == Cardinality(StocksWith(jobs, r, "fail", Len(jobs)))
                     nFailedJobs == Cardinality({j \in 1..Len(jobs) : r[j].st = "fail"})
                 IN  /\ OrcInvoked(raised, jobs, r)
                     /\ oResult' = [ok |-> oN - failed, fail |-> failed,
                                    timeout |-> nFailedJobs]
    /\ UNCHANGED notOrc

\* an orchestrator, its arguments and a cache
InitOrc ==
    /\ oPc = "ready"
    /\ oKind \in {"kline", "financial"}
    /\ oN \in OrcStockCounts
    /\ oBatchSize \in {1, 2}
    /\ oMaxRetries \in {0, 1}
    /\ oCache \in [1..oN -> OrcStatuses]
    /\ oRun = 0
    /\ oFreshAtStart = FALSE
    /\ oProbeRaised = FALSE
    /\ oJobs = <<>>
    /\ oCalls = <<>>
    /\ oResult = [ok |-> 0, fail |-> 0, timeout |-> 0]

NextOrc ==
    \/ OrcKline
    \/ OrcFinancial

InitOrcOnly == InitGuard /\ ExecIdle /\ PlanIdle /\ RunIdle /\ CliIdle /\ FinIdle /\ LoopIdle /\ InitOrc /\ YearIdle /\ SingleIdle /\ BatchesIdle /\ TradeIdle

SpecOrc == InitOrcOnly /\ [][NextOrc]_vars

RECURSIVE Requested(_)
Requested(log) ==
    IF log = <<>> THEN <<>> ELSE Head(log).stocks \o Requested(Tail(log))

\* probe_local_dates has returned
ProbeReturned == pPc \in {"history", "plan", "planned"}

\* C31: for n instruments probe_local_dates issues exactly ceil(n / size)
\* local reads (none for the empty list), each with count = 1; the batches
\* are the input list cut in order into pieces of at most size instruments,
\* so that every instrument is in exactly one of them; an instrument that is
\* missing from the result of its batch or comes with an empty frame has no
\* entry in the returned map.
C31_ProbeBatches ==
    ProbeReturned =>
        LET n == Len(pStocks)
            k == Len(pProbeLog)
        IN  /\ n = 0 => k = 0
            /\ k * PROBE_BATCH_SIZE >= n
            /\ k > 0 => (k - 1) * PROBE_BATCH_SIZE < n
            /\ \A i \in 1..k :
                  /\ pProbeLog[i].count = 1
                  /\ Len(pProbeLog[i].stocks) \in 1..PROBE_BATCH_SIZE
                  /\ \A s \in Range(pProbeLog[i].stocks) :
                        (s \notin pProbeLog[i].keys \/ s \in pProbeLog[i].empty)
                            => pLocalDates[s] = NoDate
            /\ Requested(pProbeLog) = pStocks

\* a probe of three instruments in two batches, none of which raised: one
\* instrument came with an empty frame, one was missing from its result and
\* one has an entry in the map
C31_Witness ==
    /\ ProbeReturned
    /\ Len(pStocks) = NumInstruments
    /\ Len(pProbeLog) > 1
    /\ \A i \in 1..Len(pProbeLog) : ~pProbeLog[i].raised
    /\ \E i \in 1..Len(pProbeLog) : pProbeLog[i].empty # {}
    /\ \E i \in 1..Len(pProbeLog) :
          Range(pProbeLog[i].stocks) \ pProbeLog[i].keys # {}
    /\ \E s \in Instruments : pLocalDates[s] # NoDate

(***************************************************************************)
(* build_year_groups of scripts/download_all.py: the calendar-segmented    *)
(* plan of a K-line period.  One call of build_year_groups, with the       *)
(* probe_year_coverage run it starts, over some state of the local cache.  *)
(***************************************************************************)
\* datetime.now().year
CurrentYear == Today \div 10000
\* the years the local cache can have bars in
CacheYears == {CurrentYear - 2, CurrentYear - 1, CurrentYear}
\* the values of --since-year: the years of the cache and the year after the
\* current one
SinceYears == CacheYears \cup {CurrentYear + 1}

\* list(range(since_year, current_year + 1)), as a set
Years(since) == since..CurrentYear

\* f"{year}0101" and f"{year}1231"
YearStart(year) == year * 10000 + 101
YearEnd(year) == year * 10000 + 1231

\* stock_cached_years[s]
CachedYears(s, since, coverage) ==
    Cardinality({y \in Years(since) : s \in coverage[y]})

\* [s for s in stocks if s not in cached]
RECURSIVE NotCached(_, _)
NotCached(stocks, cached) ==
    IF stocks = <<>> THEN <<>>
    ELSE (IF Head(stocks) \in cached THEN <<>> ELSE <<Head(stocks)>>)
             \o NotCached(Tail(stocks), cached)

\* sorted(..., key=...) is stable: x goes behind every element whose key is
\* not greater than its own
RECURSIVE InsertByCached(_, _, _, _)
InsertByCached(sorted, x, since, coverage) ==
    IF sorted = <<>> THEN <<x>>
    ELSE IF CachedYears(Head(sorted), since, coverage)
                <= CachedYears(x, since, coverage)
         THEN <<Head(sorted)>> \o InsertByCached(Tail(sorted), x, since, coverage)
         ELSE <<x>> \o sorted

RECURSIVE SortByCached(_, _, _)
SortByCached(lst, since, coverage) ==
    IF lst = <<>> THEN <<>>
    ELSE InsertByCached(SortByCached(SubSeq(lst, 1, Len(lst) - 1), since, coverage),
                        lst[Len(lst)], since, coverage)

\* the end bound of a year's group when every year ends at its 1231
EndBound_AlwaysYearEnd(year) == YearEnd(year)

\* lines 718-723: end_time of the group of a year
EndBound(year) == IF year = CurrentYear THEN NoDate ELSE YearEnd(year)

\* lines 712-735: the groups of the years from year down to since
RECURSIVE YearGroups(_, _, _, _)
YearGroups(stocks, since, year, coverage) ==
    IF year < since THEN <<>>
    ELSE LET need_download ==
                 SortByCached(NotCached(stocks, coverage[year]), since, coverage)
         IN  (IF need_download = <<>> THEN <<>>
              ELSE <<[st |-> YearStart(year), et |-> EndBound(year),
                      stocks |-> need_download]>>)
                 \o YearGroups(stocks, since, year - 1, coverage)

\* lines 700-707: --full skips the probe and takes every year as uncached
YearEnter ==
    /\ yPc = "start"
    /\ IF yFull
       THEN /\ yCoverage' = [y \in Years(ySince) |-> {}]
            /\ yPc' = "build"
            /\ UNCHANGED yYear
       ELSE /\ yCoverage' = [y \in Years(ySince) |-> {}]
            /\ yPc' = "probe"
            /\ yYear' = ySince
    /\ UNCHANGED <<yStocks, yFull, ySince, yCache, yBatch, yRaised, yGroups>>
    /\ UNCHANGED notYear

\* lines 661-673: one batch of one year of probe_year_coverage;
\* get_local_data raises (the batch is logged and skipped) or every
\* instrument of the batch with bars in the year is added to coverage[year]
YearProbeBatch ==
    /\ yPc = "probe"
    /\ yYear <= CurrentYear
    /\ yBatch < NumBatches(yStocks, PROBE_BATCH_SIZE)
    /\ LET batch == Batch(yStocks, yBatch, PROBE_BATCH_SIZE)
       IN  \E raises \in BOOLEAN :
              IF raises
              THEN /\ yRaised' = yRaised \cup {<<yYear, yBatch>>}
                   /\ UNCHANGED yCoverage
              ELSE /\ yCoverage' =
                         [yCoverage EXCEPT ![yYear] =
                             @ \cup {s \in Range(batch) : yYear \in yCache[s]}]
                   /\ UNCHANGED yRaised
    /\ IF yBatch + 1 = NumBatches(yStocks, PROBE_BATCH_SIZE)
       THEN yYear' = yYear + 1 /\ yBatch' = 0
       ELSE yBatch' = yBatch + 1 /\ UNCHANGED yYear
    /\ UNCHANGED <<yPc, yStocks, yFull, ySince, yCache, yGroups>>
    /\ UNCHANGED notYear

\* lines 661-675: the loops of probe_year_coverage are over (at once when
\* there is no year or no instrument) and coverage is returned
YearProbeDone ==
    /\ yPc = "probe"
    /\ yYear > CurrentYear \/ yStocks = <<>>
    /\ yPc' = "build"
    /\ UNCHANGED <<yStocks, yFull, ySince, yCache, yYear, yBatch, yCoverage,
                   yRaised, yGroups>>
    /\ UNCHANGED notYear

\* lines 709-737: the groups, most recent year first
YearBuild ==
    /\ yPc = "build"
    /\ yGroups' = YearGroups(yStocks, ySince, CurrentYear, yCoverage)
    /\ yPc' = "done"
    /\ UNCHANGED <<yStocks, yFull, ySince, yCache, yYear, yBatch, yCoverage,
                   yRaised>>
    /\ UNCHANGED notYear

\* a call on a list of instruments over some state of the local cache
InitYear ==
    /\ yPc = "start"
    /\ yStocks \in StockLists
    /\ yFull \in BOOLEAN
    /\ ySince \in SinceYears
    /\ yCache \in [Instruments -> SUBSET CacheYears]
    /\ \A s \in Instruments : s \notin Range(yStocks) => yCache[s] = {}
    /\ yYear = 0
    /\ yBatch = 0
    /\ yCoverage = <<>>
    /\ yRaised = {}
    /\ yGroups = <<>>

NextYear ==
    \/ YearEnter
    \/ YearProbeBatch
    \/ YearProbeDone
    \/ YearBuild

InitYearOnly == InitGuard /\ ExecIdle /\ PlanIdle /\ RunIdle /\ CliIdle /\ FinIdle /\ LoopIdle /\ OrcIdle /\ InitYear /\ SingleIdle /\ BatchesIdle /\ TradeIdle

SpecYear == InitYearOnly /\ [][NextYear]_vars

(***************************************************************************)
(* Properties of build_year_groups.                                        *)
(***************************************************************************)
\* the year of a group, read from its start bound f"{year}0101"
GroupYear(g) == g.st \div 10000

\* the instruments of the list with bars in year y in the local cache
CachedIn(y) == {s \in Range(yStocks) : y \in yCache[s]}

\* C32: build_year_groups emits at most one group per year of
\* since_year..current year, most recent year first; the group of a year holds
\* exactly the instruments of the list that the coverage map does not have
\* for that year (those without bars in that year when the year was probed
\* and no probe of it raised), each once, and a year with every instrument
\* covered has no group; the current year's group has an empty end bound and
\* every earlier year's group ends at that year's 1231.
C32_YearGroups ==
    yPc = "done" =>
        /\ \A i \in 1..Len(yGroups) :
              LET g == yGroups[i]
                  y == GroupYear(g)
              IN  /\ y \in Years(ySince)
                  /\ g.st = YearStart(y)
                  /\ i > 1 => y < GroupYear(yGroups[i - 1])
                  /\ Range(g.stocks) = Range(yStocks) \ yCoverage[y]
                  /\ Len(g.stocks) = Cardinality(Range(g.stocks))
                  /\ g.stocks # <<>>
                  /\ (~yFull /\ \A b \in 0..Len(yStocks) : <<y, b>> \notin yRaised)
                         => Range(g.stocks) = Range(yStocks) \ CachedIn(y)
                  /\ g.et = IF y = CurrentYear THEN NoDate ELSE y * 10000 + 1231
        /\ \A y \in Years(ySince) :
              (Range(yStocks) \subseteq yCoverage[y])
                  <=> (\A i \in 1..Len(yGroups) : GroupYear(yGroups[i]) # y)

\* a probed plan over three years for the whole universe: one year has every
\* instrument covered and no group, the current year's group comes first and
\* the earlier year's group leaves a covered instrument out
C32_Witness ==
    /\ yPc = "done"
    /\ ~yFull
    /\ yRaised = {}
    /\ Years(ySince) = CacheYears
    /\ Len(yStocks) = NumInstruments
    /\ Len(yGroups) = 2
    /\ GroupYear(yGroups[1]) = CurrentYear
    /\ yGroups[1].et = NoDate
    /\ yGroups[2].et # NoDate
    /\ Len(yGroups[2].stocks) < Len(yStocks)

(***************************************************************************)
(* _download_single_kline of scripts/download_all.py, as one iteration of  *)
(* _run_kline_downloads calls it and counts what it returns.               *)
(***************************************************************************)
\* the state of the local cache for the requested instrument, period and
\* range: the code is not in a read's result, its frame is empty, or it has
\* bars
LocalStates == {"absent", "empty", "data"}

kCall == <<kTimeout, kNativeResult, kDone, kError, kConnected, kNow, kDeadline,
           kLocal, kReads, kResult>>
kCounts == <<kOkCount, kFailCount, kTimeoutCount, kFailedIdx>>

\* lines 217-227: client.supply_history_data2(...) returns True (cached:
\* "cached" is returned at once), False (accepted asynchronously: the
\* deadline is set) or raises
SingleNativeCall ==
    /\ kPc = "call"
    /\ \E res \in {"cached", "async", "raise"} :
          /\ kNativeResult' = res
          /\ CASE res = "cached" ->
                    /\ kResult' = "cached"
                    /\ kPc' = "returned"
                    /\ UNCHANGED kDeadline
               [] res = "async" ->
                    /\ kDeadline' = kNow + kTimeout
                    /\ kPc' = "loop"
                    /\ UNCHANGED kResult
               [] OTHER ->
                    /\ kPc' = "raised"
                    /\ UNCHANGED <<kResult, kDeadline>>
    /\ UNCHANGED <<kTimeout, kDone, kError, kConnected, kNow, kLocal, kReads,
                   kCounts>>
    /\ UNCHANGED notSingle

\* lines 228, 235-237: while not status["done"], and the return after it
SingleLoopTest ==
    /\ kPc = "loop"
    /\ IF kDone
       THEN /\ kResult' = IF PyBool(kError) THEN "error" ELSE "ok"
            /\ kPc' = "returned"
       ELSE /\ kPc' = "conn"
            /\ UNCHANGED kResult
    /\ UNCHANGED <<kTimeout, kNativeResult, kDone, kError, kConnected, kNow,
                   kDeadline, kLocal, kReads, kCounts>>
    /\ UNCHANGED notSingle

\* lines 229-230
SingleConnCheck ==
    /\ kPc = "conn"
    /\ IF ~kConnected
       THEN kResult' = "disconnected" /\ kPc' = "returned"
       ELSE kPc' = "time" /\ UNCHANGED kResult
    /\ UNCHANGED <<kTimeout, kNativeResult, kDone, kError, kConnected, kNow,
                   kDeadline, kLocal, kReads, kCounts>>
    /\ UNCHANGED notSingle

\* lines 231-233: the deadline test, then time.sleep(0.1)
SingleTimeCheck ==
    /\ kPc = "time"
    /\ IF kNow >= kDeadline
       THEN kResult' = "timeout" /\ kPc' = "returned"
       ELSE kPc' = "loop" /\ UNCHANGED kResult
    /\ UNCHANGED <<kTimeout, kNativeResult, kDone, kError, kConnected, kNow,
                   kDeadline, kLocal, kReads, kCounts>>
    /\ UNCHANGED notSingle

\* lines 297-329 of _run_kline_downloads: the result, or the exception, of
\* the call is counted
SingleCount ==
    /\ kPc \in {"returned", "raised"}
    /\ IF kPc = "returned" /\ kResult \in CliSuccesses
       THEN /\ kOkCount' = kOkCount + 1
            /\ UNCHANGED <<kFailCount, kTimeoutCount, kFailedIdx>>
       ELSE /\ kFailCount' = kFailCount + 1
            /\ kTimeoutCount' =
                  IF kPc = "returned" /\ kResult = "timeout"
                  THEN kTimeoutCount + 1 ELSE kTimeoutCount
            /\ kFailedIdx' = Append(kFailedIdx, 0)
            /\ UNCHANGED kOkCount
    /\ kPc' = "counted"
    /\ UNCHANGED kCall
    /\ UNCHANGED notSingle

\* lines 204-213: on_progress(data), invoked by the native client's thread
\* while the asynchronous download is outstanding
SingleOnProgress ==
    /\ kNativeResult = "async"
    /\ kPc \in {"loop", "conn", "time"}
    /\ ~kDone
    /\ \E total \in CbTotals, finished \in CbFinished, m \in CbMessages :
          IF total < 0
          THEN kError' = CbMessage(m) /\ kDone' = TRUE
          ELSE IF finished >= total /\ total > 0
          THEN kDone' = TRUE /\ UNCHANGED kError
          ELSE UNCHANGED <<kDone, kError>>
    /\ UNCHANGED <<kPc, kTimeout, kNativeResult, kConnected, kNow, kDeadline,
                   kLocal, kReads, kResult, kCounts>>
    /\ UNCHANGED notSingle

\* the connection to the data service drops
SingleConnectionLost ==
    /\ kPc \in {"loop", "conn", "time"}
    /\ kConnected
    /\ kConnected' = FALSE
    /\ UNCHANGED <<kPc, kTimeout, kNativeResult, kDone, kError, kNow, kDeadline,
                   kLocal, kReads, kResult, kCounts>>
    /\ UNCHANGED notSingle

\* time passes between two steps of the call
SingleClockTick ==
    /\ kPc \in {"loop", "conn", "time"}
    /\ kNow < MaxClock
    /\ kNow' = kNow + 1
    /\ UNCHANGED <<kPc, kTimeout, kNativeResult, kDone, kError, kConnected,
                   kDeadline, kLocal, kReads, kResult, kCounts>>
    /\ UNCHANGED notSingle

\* one job of the first round, over some state of the local cache
InitSingle ==
    /\ kPc = "call"
    /\ kTimeout \in 0..MaxTimeout
    /\ kNativeResult = "none"
    /\ kDone = FALSE
    /\ kError = ""
    /\ kConnected = TRUE
    /\ kNow = 0
    /\ kDeadline = 0
    /\ kLocal \in LocalStates
    /\ kReads = 0
    /\ kResult = "none"
    /\ kOkCount = 0
    /\ kFailCount = 0
    /\ kTimeoutCount = 0
    /\ kFailedIdx = <<>>

NextSingle ==
    \/ SingleNativeCall
    \/ SingleLoopTest
    \/ SingleConnCheck
    \/ SingleTimeCheck
    \/ SingleCount
    \/ SingleOnProgress
    \/ SingleConnectionLost
    \/ SingleClockTick

InitSingleOnly == InitGuard /\ ExecIdle /\ PlanIdle /\ RunIdle /\ CliIdle /\ FinIdle /\ LoopIdle /\ OrcIdle /\ YearIdle /\ InitSingle /\ BatchesIdle /\ TradeIdle

SpecSingle == InitSingleOnly /\ [][NextSingle]_vars

\* C33: in _download_single_kline a cached return of the native call is
\* counted as a success only after a follow-up local read has shown bars
\* for the requested instrument, period and range.
C33_CachedCountedAfterLocalRead ==
    (kPc = "counted" /\ kNativeResult = "cached" /\ kOkCount > 0)
        => (kReads > 0 /\ kLocal = "data")

(***************************************************************************)
(* Properties of the counts of an interrupted run.                         *)
(***************************************************************************)
\* the jobs of the running group whose last attempt ended as st
JobsWith(st) == {i \in DOMAIN cJobStatus : cJobStatus[i] = st}

\* the instruments of a set of jobs of the running group
RECURSIVE InstrumentsIn(_)
InstrumentsIn(jobs) ==
    IF jobs = {} THEN 0
    ELSE LET i == CHOOSE j \in jobs : TRUE
         IN  (IF cPhase = "kline" THEN 1 ELSE cGroups[cGroup][i])
                 + InstrumentsIn(jobs \ {i})

\* the runner returned to the retry loop with interrupted set, out of a
\* retry round
InterruptedInRetry == cPc = "loop" /\ cInterrupted /\ cRound >= 1

\* C34: when Ctrl+C arrives during a retry round, the counts the retry loop
\* ends with keep every outcome gathered so far: every job whose last attempt
\* failed is counted in fail and every job that succeeded is counted in ok.
C34_InterruptKeepsCounts ==
    [][InterruptedInRetry =>
          IF cPhase = "kline"
          THEN /\ cTotalFail' - cTotalFail >= InstrumentsIn(JobsWith("failed"))
               /\ cTotalOk' - cTotalOk >= InstrumentsIn(JobsWith("ok"))
          ELSE /\ cFinResult'.fail >= InstrumentsIn(JobsWith("failed"))
               /\ cFinResult'.ok >= InstrumentsIn(JobsWith("ok"))]_vars

(***************************************************************************)
(* Properties of the saved state file.                                     *)
(***************************************************************************)
\* the run has a result for the task of key
HasResult(key) ==
    IF key[1] = "kline" THEN key[2] <= Len(cResults) ELSE cFinResult # <<>>

\* last_success_date of an entry ("" when there is none)
LastSuccess(entry) ==
    IF entry = NoTask THEN NoDate ELSE entry.last_success_date

\* C35: in the saved state a task key's last_success_date is today only when
\* the run went through every instrument of the task and none failed; a task
\* that ended with failures, or that Ctrl+C cut short, keeps the
\* last_success_date it had; the entry of a key without a result in the run
\* is the entry that was loaded.
C35_SuccessDateOnlyWhenComplete ==
    cSaved =>
        \A key \in CliTaskKeys :
            /\ LastSuccess(cTasks[key]) = Today
                   => (HasResult(key) /\ key \notin cUnfinished)
            /\ (HasResult(key) /\ key \in cUnfinished)
                   => LastSuccess(cTasks[key]) = LastSuccess(cPrevTasks[key])
            /\ ~HasResult(key) => cTasks[key] = cPrevTasks[key]

(***************************************************************************)
(* Properties of the orchestrators' returned counts.                       *)
(***************************************************************************)
\* C36: the result of an orchestrator has ok + fail equal to the number of
\* input instruments (the instruments the financial orchestrator skipped as
\* fresh are in ok) and 0 <= timeout <= fail, whatever the outcomes of the
\* jobs in the first round and in the retry rounds.
C36_CountsAddUp ==
    rPc = "done" =>
        /\ totalOk + totalFail = TotalInstruments
        /\ totalOk >= rCached
        /\ 0 <= totalTo
        /\ totalTo <= totalFail

\* a financial invocation with an instrument skipped as fresh and a retry
\* round: a batch of two instruments failed to the end and another batch
\* succeeded, so that timeout is smaller than fail
C36_Witness ==
    /\ rPc = "done"
    /\ rKind = "financial"
    /\ rCached = 1
    /\ rRound >= 1
    /\ totalOk > rCached
    /\ totalTo = 1
    /\ totalFail = 2

(***************************************************************************)
(* _run_financial_batches of server/downloader.py with the retry loop of   *)
(* download_financial_incremental around it, and the worker threads its    *)
(* executors start.                                                        *)
(***************************************************************************)
\* the batch lists of a run: the length of each batch
BatchLists == {BatchSizes(n, 2) : n \in 1..4} \cup {BatchSizes(2, 1)}

bArgs == <<bBatches, bDelay, bMaxRetries, bTimeout>>
bCounts == <<bOkCount, bFailCount, bToCount, bFailedIdx>>

\* the call submitted for the batch the round is at
AwaitedCall == <<bRound, bIndices[bSeq + 1]>>

\* a call of _run_financial_batches on the index list indices
BatchesEnterRound(round, indices) ==
    /\ bRound' = round
    /\ bIndices' = indices
    /\ bSeq' = 0
    /\ bOkCount' = 0
    /\ bFailCount' = 0
    /\ bToCount' = 0
    /\ bFailedIdx' = <<>>
    /\ bPc' = "submit"

\* lines 670-671: after a batch, the delay unless it was the last of the list
AfterBatch ==
    /\ bSeq' = bSeq + 1
    /\ bPc' = IF bDelay /\ bSeq < Len(bIndices) - 1 THEN "delay" ELSE "submit"

\* lines 657-668: the except clauses count the batch as failed; the finally
\* clause's executor.shutdown(wait=False, cancel_futures=True) returns at
\* once and leaves a call that is already running to its worker thread
BatchFailed(timedOut) ==
    /\ bFailCount' = bFailCount + bBatches[bIndices[bSeq + 1]]
    /\ bToCount' = IF timedOut THEN bToCount + 1 ELSE bToCount
    /\ bFailedIdx' = Append(bFailedIdx, bIndices[bSeq + 1])
    /\ UNCHANGED <<bOkCount, bRunning>>

\* lines 643-653: a new ThreadPoolExecutor(max_workers=1) per batch; its
\* worker thread starts xtdata.download_financial_data2 for the batch
BatchSubmit ==
    /\ bPc = "submit"
    /\ bSeq < Len(bIndices)
    /\ bRunning' = bRunning \cup {AwaitedCall}
    /\ bFuture' = "pending"
    /\ bPolled' = 0
    /\ bPc' = "wait"
    /\ UNCHANGED <<bArgs, bRound, bIndices, bSeq, bCounts, bFailed>>
    /\ UNCHANGED notBatches

\* a download_financial_data2 call returns or raises in its worker thread:
\* the one being waited for completes its future, an abandoned one just ends
BatchCallEnds ==
    /\ \E c \in bRunning, how \in {"ok", "raised"} :
          /\ bRunning' = bRunning \ {c}
          /\ bFuture' = IF bPc = "wait" /\ c = AwaitedCall THEN how ELSE bFuture
    /\ UNCHANGED <<bPc, bArgs, bRound, bIndices, bSeq, bPolled, bCounts, bFailed>>
    /\ UNCHANGED notBatches

\* wait_future (131-141) with lines 654-671: a poll of the future; it is
\* done (the batch is counted ok, or its exception counted as a failure), or
\* the poll times out and FutureTimeoutError is raised once the deadline has
\* passed
BatchPoll ==
    /\ bPc = "wait"
    /\ CASE bFuture = "ok" ->
                /\ bOkCount' = bOkCount + bBatches[bIndices[bSeq + 1]]
                /\ AfterBatch
                /\ UNCHANGED <<bFailCount, bToCount, bFailedIdx, bRunning, bPolled>>
         [] bFuture = "raised" ->
                /\ BatchFailed(FALSE)
                /\ AfterBatch
                /\ UNCHANGED bPolled
         [] bFuture = "pending" /\ bPolled + 1 >= bTimeout ->
                /\ BatchFailed(TRUE)
                /\ AfterBatch
                /\ bPolled' = bPolled + 1
         [] OTHER ->
                /\ bPolled' = bPolled + 1
                /\ UNCHANGED <<bPc, bSeq, bCounts, bRunning>>
    /\ UNCHANGED <<bArgs, bRound, bIndices, bFuture, bFailed>>
    /\ UNCHANGED notBatches

\* lines 670-671: time.sleep(delay) ends
BatchDelayDone ==
    /\ bPc = "delay"
    /\ bPc' = "submit"
    /\ UNCHANGED <<bArgs, bRound, bIndices, bSeq, bPolled, bFuture, bRunning,
                   bCounts, bFailed>>
    /\ UNCHANGED notBatches

\* line 673 with 597 and 610-613: the round returns its failed_indices
BatchRoundReturn ==
    /\ bPc = "submit"
    /\ bSeq = Len(bIndices)
    /\ bFailed' = bFailedIdx
    /\ bPc' = "loop"
    /\ UNCHANGED <<bArgs, bRound, bIndices, bSeq, bPolled, bFuture, bRunning,
                   bCounts>>
    /\ UNCHANGED notBatches

\* lines 600-613: a retry round over the failed batches, or the end
BatchRetryOrFinish ==
    /\ bPc = "loop"
    /\ IF bRound < bMaxRetries /\ bFailed # <<>>
       THEN BatchesEnterRound(bRound + 1, bFailed)
       ELSE /\ bPc' = "returned"
            /\ UNCHANGED <<bRound, bIndices, bSeq, bCounts>>
    /\ UNCHANGED <<bArgs, bPolled, bFuture, bRunning, bFailed>>
    /\ UNCHANGED notBatches

\* a run over some batch list
InitBatches ==
    /\ bPc = "submit"
    /\ bBatches \in BatchLists
    /\ bDelay \in BOOLEAN
    /\ bMaxRetries \in {0, 1}
    /\ bTimeout \in {1, 2}
    /\ bRound = 0
    /\ bIndices = AllIndices(bBatches)
    /\ bSeq = 0
    /\ bPolled = 0
    /\ bFuture = "pending"
    /\ bRunning = {}
    /\ bOkCount = 0
    /\ bFailCount = 0
    /\ bToCount = 0
    /\ bFailedIdx = <<>>
    /\ bFailed = <<>>

NextBatches ==
    \/ BatchSubmit
    \/ BatchCallEnds
    \/ BatchPoll
    \/ BatchDelayDone
    \/ BatchRoundReturn
    \/ BatchRetryOrFinish

InitBatchesOnly == InitGuard /\ ExecIdle /\ PlanIdle /\ RunIdle /\ CliIdle /\ FinIdle /\ LoopIdle /\ OrcIdle /\ YearIdle /\ SingleIdle /\ InitBatches /\ TradeIdle

SpecBatches == InitBatchesOnly /\ [][NextBatches]_vars

\* C37: at most one xtdata.download_financial_data2 call is executing at any
\* instant: no call is started for a batch, in the same round or in a retry
\* round, while the call of an earlier batch, abandoned after its timeout or
\* not, is still running in its worker thread.
C37_OneFinancialCallAtATime ==
    Cardinality(bRunning) <= 1

(***************************************************************************)
(* Properties of the /ws/download_progress runs.                           *)
(***************************************************************************)
\* the WebSocket connections whose download run is inside a native call
WsInNative == {w \in WsConns : wsPc[w] = "native"}

\* C38: a download run started through /ws/download_progress never executes
\* a native-client call at the same instant as a guarded HTTP handler, or
\* another /ws/download_progress run, executes one.
C38_WsDownloadSerialized ==
    /\ Cardinality(WsInNative) <= 1
    /\ WsInNative # {} => InNative = {}

(***************************************************************************)
(* broadcast_trade_event of server/ws/trade_callback.py: one broadcast,    *)
(* run on the event loop, and the /ws/trade clients that connect and       *)
(* disconnect while it is suspended.  The code between two awaits is one   *)
(* step.                                                                   *)
(***************************************************************************)
\* number of /ws/trade clients
NumClients == 3
Clients == 1..NumClients

tIter == <<tUsed, tModified, tVisited, tCurrent>>

\* the outcomes of next() on the set iterator of the for loop: RuntimeError
\* when the size of the set differs from the size at the iterator's
\* creation; a client not yielded yet, or StopIteration when there is none,
\* while the set is as it was; when it was modified and has its old size
\* again, the order of iteration is not defined: any client of the set, or
\* StopIteration
IterNext(visited) ==
    IF Cardinality(tListeners) # tUsed
    THEN {[kind |-> "raise", ws |-> 0]}
    ELSE IF tModified
    THEN {[kind |-> "yield", ws |-> c] : c \in tListeners}
             \cup {[kind |-> "stop", ws |-> 0]}
    ELSE IF tListeners \ visited # {}
    THEN {[kind |-> "yield", ws |-> c] : c \in tListeners \ visited}
    ELSE {[kind |-> "stop", ws |-> 0]}

\* the code from one next() of the for loop to the next await, to the
\* return or to the exception: difference_update(dead) runs after the loop
Advance(nx, visited, dead) ==
    /\ tVisited' = IF nx.kind = "yield" THEN visited \cup {nx.ws} ELSE visited
    /\ tCurrent' = nx.ws
    /\ tPc' = CASE nx.kind = "yield" -> "send"
                [] nx.kind = "stop" -> "done"
                [] OTHER -> "raised"
    /\ tListeners' = IF nx.kind = "stop" THEN tListeners \ dead
                     ELSE tListeners

\* ws_trade: accept, then _trade_listeners.add(ws)
TradeConnect(c) ==
    /\ tPc \in {"idle", "send"}
    /\ c \notin tListeners
    /\ tListeners' = tListeners \cup {c}
    /\ tModified' = IF tPc = "send" THEN TRUE ELSE tModified
    /\ UNCHANGED <<tPc, tUsed, tVisited, tCurrent, tDead, tDelivered, tStayed>>
    /\ UNCHANGED notTrade

\* ws_trade: receive_text raises WebSocketDisconnect, the finally clause
\* runs _trade_listeners.discard(ws)
TradeDisconnect(c) ==
    /\ tPc \in {"idle", "send"}
    /\ c \in tListeners
    /\ tListeners' = tListeners \ {c}
    /\ tModified' = IF tPc = "send" THEN TRUE ELSE tModified
    /\ tStayed' = tStayed \ {c}
    /\ UNCHANGED <<tPc, tUsed, tVisited, tCurrent, tDead, tDelivered>>
    /\ UNCHANGED notTrade

\* broadcast_trade_event up to its first await: dead = set(), the for loop
\* makes the iterator and calls next()
BroadcastStart ==
    /\ tPc = "idle"
    /\ tUsed' = Cardinality(tListeners)
    /\ tModified' = FALSE
    /\ tDead' = {}
    /\ tDelivered' = {}
    /\ tStayed' = tListeners
    /\ IF tListeners = {}
       THEN Advance([kind |-> "stop", ws |-> 0], {}, {})
       ELSE \E c \in tListeners : Advance([kind |-> "yield", ws |-> c], {}, {})
    /\ UNCHANGED notTrade

\* await ws.send_json(event) returns or raises (except Exception:
\* dead.add(ws)), and the for loop calls next()
BroadcastSendEnds ==
    /\ tPc = "send"
    /\ \E sent \in BOOLEAN :
          /\ tDelivered' = IF sent THEN tDelivered \cup {tCurrent}
                           ELSE tDelivered
          /\ tDead' = IF sent THEN tDead ELSE tDead \cup {tCurrent}
          /\ \E nx \in IterNext(tVisited) : Advance(nx, tVisited, tDead')
    /\ UNCHANGED <<tUsed, tModified, tStayed>>
    /\ UNCHANGED notTrade

InitTrade ==
    /\ tPc = "idle"
    /\ tListeners \in SUBSET Clients
    /\ tUsed = 0
    /\ tModified = FALSE
    /\ tVisited = {}
    /\ tCurrent = 0
    /\ tDead = {}
    /\ tDelivered = {}
    /\ tStayed = {}

NextTrade ==
    \/ \E c \in Clients : TradeConnect(c)
    \/ \E c \in Clients : TradeDisconnect(c)
    \/ BroadcastStart
    \/ BroadcastSendEnds

InitTradeOnly == InitGuard /\ ExecIdle /\ PlanIdle /\ RunIdle /\ CliIdle /\ FinIdle /\ LoopIdle /\ OrcIdle /\ YearIdle /\ SingleIdle /\ BatchesIdle /\ InitTrade

SpecTrade == InitTradeOnly /\ [][NextTrade]_vars

\* C39: broadcast_trade_event completes without raising, also when a client
\* connects or disconnects while it is suspended in a send; when it has
\* returned, every client that stayed registered for the whole broadcast was
\* sent the event, and the clients it took out of the listener set are
\* exactly those whose send failed.
C39_BroadcastCompletes ==
    /\ tPc # "raised"
    /\ tPc = "done" =>
          /\ tStayed \subseteq tDelivered \cup tDead
          /\ tListeners \cap tDead = {}

====
